---- MODULE Spec2Model ----
(***************************************************************************)
(* Asset manager (mesh / material / texture / sampler interning, material  *)
(* slot allocation, mesh buffer layout) and forward renderer (render,      *)
(* resize) of the delta engine, as a state machine.                        *)
(*                                                                         *)
(* Conventions:                                                            *)
(*   Option<T>     None is <<>>, Some(x) is <<x>>                          *)
(*   String        a tuple of one-character strings, "a#0" is              *)
(*                 <<"a","#","0">>                                         *)
(*   Vec<Vertex>   a run-length encoded sequence: a tuple of runs          *)
(*                 [v |-> vertex, n |-> repetitions >= 1] in which no two  *)
(*                 neighbouring runs hold the same vertex, so a list of    *)
(*                 65 536 vertices is one short value (vec_len,            *)
(*                 vec_extend and Verts are the list operations)           *)
(*   HashMap       a function on the set of inserted keys                  *)
(*   SlotMap       a sequence; the key of an element is its position       *)
(*                 (nothing is ever removed from a slot map here)          *)
(*   f32           an integer; INFINITY and NEG_INFINITY are the sentinels *)
(*                 F32_INFINITY and F32_NEG_INFINITY                       *)
(*   panic!/expect the operation returns ok = FALSE with the state it had  *)
(*                 built up to that point; the process is then dead        *)
(***************************************************************************)
EXTENDS Integers, Sequences, FiniteSets, TLC

VARIABLES asset, pc, last, prev, ncalls, input,
          config, depth_tex, camera, camera_buffer,
          light_ssbo, light_params, surface, frame, pipeline_state, app

vars == <<asset, pc, last, prev, ncalls, input, config, depth_tex, camera, camera_buffer,
          light_ssbo, light_params, surface, frame, pipeline_state, app>>

assetVars == <<asset>>
renderVars == <<config, depth_tex, camera, camera_buffer,
                light_ssbo, light_params, surface, frame, pipeline_state>>

(***************************************************************************)
(* Bounds of the model.                                                    *)
(***************************************************************************)
MaxCalls == 3
MaxFrames == 2
MaxLights == 17
MaxDim == 2

(***************************************************************************)
(* Program constants.                                                      *)
(***************************************************************************)
MAX_MAT == 1024
MAX_LIGHTS == 16
U16_LIMIT == 65536
F32_INFINITY == 1000000
F32_NEG_INFINITY == -1000000

None == <<>>
Some(x) == <<x>>
IsSome(o) == o # <<>>
Unwrap(o) == o[1]

SetMin(S) == CHOOSE x \in S : \A y \in S : x <= y
SetMax(S) == CHOOSE x \in S : \A y \in S : x >= y
Min2(a, b) == IF a <= b THEN a ELSE b

\* u32 / usize / i32 values: every count and index of the model stays far
\* below 2^31, so u32 additions and the casts `as u32`, `as i32` never wrap
\* and are written as plain integer arithmetic
\* `i as u16`
AsU16(x) == x % U16_LIMIT

MapGet(m, k) == IF k \in DOMAIN m THEN Some(m[k]) ELSE None
MapInsert(m, k, v) == (k :> v) @@ m
EmptyMap == <<>>

(***************************************************************************)
(* Strings: format!("{}#{}", path, n), str::parse::<usize>, splitn(2,'#')  *)
(***************************************************************************)
DigitChars == <<"0", "1", "2", "3", "4", "5", "6", "7", "8", "9">>
DigitVal(c) == (CHOOSE i \in 1..10 : DigitChars[i] = c) - 1
IsDigit(c) == \E i \in 1..10 : DigitChars[i] = c

RECURSIVE FormatUsize(_)
FormatUsize(n) ==
    IF n < 10 THEN <<DigitChars[n + 1]>>
    ELSE FormatUsize(n \div 10) \o <<DigitChars[(n % 10) + 1]>>

RECURSIVE DigitsValue(_)
DigitsValue(s) ==
    IF Len(s) = 0 THEN 0
    ELSE 10 * DigitsValue(SubSeq(s, 1, Len(s) - 1)) + DigitVal(s[Len(s)])

\* s.parse::<usize>(): an optional '+' followed by at least one digit
ParseUsize(s) ==
    LET body == IF Len(s) > 0 /\ s[1] = "+" THEN Tail(s) ELSE s
    IN IF Len(body) > 0 /\ \A i \in 1..Len(body) : IsDigit(body[i])
       THEN Some(DigitsValue(body))
       ELSE None

FormatKey(path, n) == path \o <<"#">> \o FormatUsize(n)

\* AssetManager::split_key: key.splitn(2, '#')
split_key(key) ==
    IF \E i \in 1..Len(key) : key[i] = "#"
    THEN LET p == SetMin({i \in 1..Len(key) : key[i] = "#"})
         IN [path |-> SubSeq(key, 1, p - 1),
             selector |-> Some(SubSeq(key, p + 1, Len(key)))]
    ELSE [path |-> key, selector |-> None]

\* AssetManager::split_path (texture and sampler keys, "path#index" with a
\* numeric index): None when the key has no '#' or the index is not a number
split_path(key) ==
    LET sk == split_key(key)
    IN IF IsSome(sk.selector) /\ IsSome(ParseUsize(Unwrap(sk.selector)))
       THEN Some([path |-> sk.path, selector |-> Unwrap(ParseUsize(Unwrap(sk.selector)))])
       ELSE None

(***************************************************************************)
(* The scene files the importer reads.  One file, "a", with four meshes,   *)
(* two materials, two textures and one sampler; every other path does not  *)
(* exist.                                                                  *)
(***************************************************************************)
PathA == <<"a">>
NameCube == <<"C", "u", "b", "e">>
NameMat == <<"M">>
NameHash == <<"C", "#", "1">>

V(x, y, z) == [position |-> <<x, y, z>>]

\* Vec<Vertex>::len
RECURSIVE vec_len(_)
vec_len(s) == IF s = <<>> THEN 0 ELSE s[1].n + vec_len(Tail(s))

\* Vec<Vertex>::extend_from_slice
vec_extend(s, t) ==
    IF s = <<>> THEN t
    ELSE IF t = <<>> THEN s
    ELSE IF s[Len(s)].v = t[1].v
         THEN SubSeq(s, 1, Len(s) - 1)
              \o <<[v |-> t[1].v, n |-> s[Len(s)].n + t[1].n]>> \o Tail(t)
         ELSE s \o t

\* the vertices that occur in a list
vec_elems(s) == {s[i].v : i \in 1..Len(s)}

\* a list of n copies of v, and the list of the elements of a tuple
Repeat(v, n) == IF n = 0 THEN <<>> ELSE <<[v |-> v, n |-> n]>>
RECURSIVE Verts(_)
Verts(seq) ==
    IF seq = <<>> THEN <<>>
    ELSE vec_extend(Verts(SubSeq(seq, 1, Len(seq) - 1)), Repeat(seq[Len(seq)], 1))

GltfPrimA ==
    [mode |-> "Triangles",
     positions |-> Verts(<<V(0, 0, 0), V(1, 2, 3), V(-1, 0, 5), V(0, 1, 0)>>),
     indices |-> Some(<<0, 1, 2, 0, 2, 3>>),
     material |-> Some(0)]
GltfPrimB ==
    [mode |-> "Triangles",
     positions |-> Verts(<<V(2, 2, 2), V(3, 2, 2), V(2, 4, 2)>>),
     indices |-> None,
     material |-> None]
GltfPrimC ==
    [mode |-> "Triangles",
     positions |-> Verts(<<V(0, 0, 0), V(1, 1, 1)>>),
     indices |-> None,
     material |-> None]
GltfPrimD ==
    [mode |-> "Triangles",
     positions |-> Verts(<<V(0, 0, 0), V(1, 0, 0), V(0, 1, 0)>>),
     indices |-> Some(<<0, 1, 2>>),
     material |-> Some(1)]
GltfPrimE ==
    [mode |-> "Lines",
     positions |-> Verts(<<V(0, 0, 0), V(1, 0, 0)>>),
     indices |-> None,
     material |-> None]

DocA ==
    [meshes |-> << [name |-> Some(NameCube), primitives |-> <<GltfPrimA, GltfPrimB>>],
                   [name |-> None, primitives |-> <<GltfPrimC>>],
                   [name |-> None, primitives |-> <<GltfPrimB, GltfPrimD>>],
                   [name |-> None, primitives |-> <<GltfPrimE>>],
                   [name |-> Some(NameHash), primitives |-> <<GltfPrimA, GltfPrimA>>] >>,
     materials |-> << [name |-> Some(NameMat), factor |-> 7,
                       base_color_texture |-> Some(0),
                       metallic_roughness_texture |-> Some(1),
                       normal_texture |-> Some(0),
                       emissive_texture |-> Some(1)],
                      [name |-> None, factor |-> 9,
                       base_color_texture |-> Some(0),
                       metallic_roughness_texture |-> None,
                       normal_texture |-> None,
                       emissive_texture |-> None] >>,
     textures |-> << [pixels |-> "img0", width |-> 2, height |-> 1, sampler |-> Some(0)],
                     [pixels |-> "img1", width |-> 1, height |-> 1, sampler |-> None] >>,
     samplers |-> << [mag_filter |-> Some("Nearest"),
                      min_filter |-> Some("LinearMipmapLinear"),
                      wrap_s |-> "Repeat", wrap_t |-> "MirroredRepeat"] >>]

\* a file with more materials than there are material slots: every
\* material is complete and all share the file's two textures
PathC == <<"c">>
DocC ==
    [meshes |-> <<>>,
     materials |-> [i \in 1..(MAX_MAT + 2) |->
                      [name |-> None, factor |-> i,
                       base_color_texture |-> Some(0),
                       metallic_roughness_texture |-> Some(1),
                       normal_texture |-> Some(0),
                       emissive_texture |-> Some(1)]],
     textures |-> DocA.textures,
     samplers |-> DocA.samplers]

\* a file with one sampler for every combination of min filter, mag
\* filter, wrap S and wrap T that a glTF sampler can hold
MinFilters == <<None, Some("Nearest"), Some("Linear"), Some("NearestMipmapNearest"),
                Some("LinearMipmapNearest"), Some("NearestMipmapLinear"),
                Some("LinearMipmapLinear")>>
MagFilters == <<None, Some("Nearest"), Some("Linear")>>
WrappingModes == <<"ClampToEdge", "MirroredRepeat", "Repeat">>
SamplerCount == Len(MinFilters) * Len(MagFilters) * Len(WrappingModes) * Len(WrappingModes)
PathS == <<"s">>
DocS ==
    [meshes |-> <<>>, materials |-> <<>>, textures |-> <<>>,
     samplers |-> [i \in 1..SamplerCount |->
                     [min_filter |-> MinFilters[((i - 1) % 7) + 1],
                      mag_filter |-> MagFilters[(((i - 1) \div 7) % 3) + 1],
                      wrap_s |-> WrappingModes[(((i - 1) \div 21) % 3) + 1],
                      wrap_t |-> WrappingModes[(((i - 1) \div 63) % 3) + 1]]]]

Files == (PathA :> DocA) @@ (PathC :> DocC) @@ (PathS :> DocS)

Fail == [ok |-> FALSE, val |-> None]
Done(v) == [ok |-> TRUE, val |-> v]

(***************************************************************************)
(* Importer (asset_manager/importer.rs)                                    *)
(***************************************************************************)
\* select_mesh / select_material: first entity, by index, or by name
\* A faulty selection that counts indices from one.
select_entity_one_based(list, sel) ==
    IF IsSome(sel)
    THEN LET s == Unwrap(sel)
             idx == ParseUsize(s)
         IN IF IsSome(idx)
            THEN IF Unwrap(idx) \in 1..Len(list) THEN Done(list[Unwrap(idx)]) ELSE Fail
            ELSE IF \E i \in 1..Len(list) : list[i].name = Some(s)
                 THEN Done(list[SetMin({i \in 1..Len(list) : list[i].name = Some(s)})])
                 ELSE Fail
    ELSE IF Len(list) > 0 THEN Done(list[1]) ELSE Fail

select_entity(list, sel) ==
    IF IsSome(sel)
    THEN LET s == Unwrap(sel)
             idx == ParseUsize(s)
         IN IF IsSome(idx)
            THEN IF Unwrap(idx) < Len(list) THEN Done(list[Unwrap(idx) + 1]) ELSE Fail
            ELSE IF \E i \in 1..Len(list) : list[i].name = Some(s)
                 THEN Done(list[SetMin({i \in 1..Len(list) : list[i].name = Some(s)})])
                 ELSE Fail
    ELSE IF Len(list) > 0 THEN Done(list[1]) ELSE Fail

select_mesh(doc, sel) == select_entity(doc.meshes, sel)
select_material(doc, sel) == select_entity(doc.materials, sel)

\* indices.chunks(3).filter(|tri| tri.len() == 3)
tri_indices(indices) ==
    [t \in 1..(Len(indices) \div 3) |->
        <<indices[3 * t - 2], indices[3 * t - 1], indices[3 * t]>>]

\* one glTF primitive to one engine Primitive
import_primitive(prim) ==
    LET n == vec_len(prim.positions)
        indices == IF IsSome(prim.indices) THEN Unwrap(prim.indices)
                   ELSE [i \in 1..n |-> i - 1]
    IN [vertex |-> prim.positions,
        index |-> tri_indices(indices),
        material |-> prim.material]

load_mesh(path, selector) ==
    IF path \notin DOMAIN Files THEN Fail
    ELSE LET m == select_mesh(Files[path], selector)
         IN IF ~m.ok THEN Fail
            ELSE IF \E i \in 1..Len(m.val.primitives) :
                        m.val.primitives[i].mode # "Triangles"
                 THEN Fail
                 ELSE Done([i \in 1..Len(m.val.primitives) |->
                              import_primitive(m.val.primitives[i])])

load_material(path, selector) ==
    IF path \notin DOMAIN Files THEN Fail
    ELSE LET m == select_material(Files[path], selector)
         IN IF ~m.ok THEN Fail
            ELSE Done([factor |-> m.val.factor,
                       base_color_texture |-> m.val.base_color_texture,
                       metallic_roughness_texture |-> m.val.metallic_roughness_texture,
                       normal_texture |-> m.val.normal_texture,
                       emissive_texture |-> m.val.emissive_texture])

load_texture(path, selector) ==
    IF path \notin DOMAIN Files THEN Fail
    ELSE IF selector < Len(Files[path].textures)
         THEN Done(Files[path].textures[selector + 1])
         ELSE Fail

\* A faulty table that gives LinearMipmapNearest a linear mipmap filter.
min_filter_map_mipmap_linear(f) ==
    IF f = Some("Nearest") THEN <<"Nearest", "Nearest">>
    ELSE IF f = Some("Linear") THEN <<"Linear", "Nearest">>
    ELSE IF f = Some("NearestMipmapNearest") THEN <<"Nearest", "Nearest">>
    ELSE IF f = Some("LinearMipmapNearest") THEN <<"Linear", "Linear">>
    ELSE IF f = Some("NearestMipmapLinear") THEN <<"Nearest", "Linear">>
    ELSE IF f = Some("LinearMipmapLinear") THEN <<"Linear", "Linear">>
    ELSE <<"Linear", "Nearest">>

min_filter_map(f) ==
    IF f = Some("Nearest") THEN <<"Nearest", "Nearest">>
    ELSE IF f = Some("Linear") THEN <<"Linear", "Nearest">>
    ELSE IF f = Some("NearestMipmapNearest") THEN <<"Nearest", "Nearest">>
    ELSE IF f = Some("LinearMipmapNearest") THEN <<"Linear", "Nearest">>
    ELSE IF f = Some("NearestMipmapLinear") THEN <<"Nearest", "Linear">>
    ELSE IF f = Some("LinearMipmapLinear") THEN <<"Linear", "Linear">>
    ELSE <<"Linear", "Nearest">>

mag_filter_map(f) == IF f = Some("Nearest") THEN "Nearest" ELSE "Linear"

wrap_map(m) ==
    IF m = "ClampToEdge" THEN "ClampToEdge"
    ELSE IF m = "MirroredRepeat" THEN "MirrorRepeat"
    ELSE "Repeat"

load_sampler(path, selector) ==
    IF path \notin DOMAIN Files THEN Fail
    ELSE IF selector < Len(Files[path].samplers)
         THEN LET s == Files[path].samplers[selector + 1]
              IN Done([address_mode_u |-> wrap_map(s.wrap_s),
                       address_mode_v |-> wrap_map(s.wrap_t),
                       address_mode_w |-> "ClampToEdge",
                       mag_filter |-> mag_filter_map(s.mag_filter),
                       min_filter |-> min_filter_map(s.min_filter)[1],
                       mipmap_filter |-> min_filter_map(s.min_filter)[2]])
         ELSE Fail

(***************************************************************************)
(* AssetManager (asset_manager.rs).  `device` counts the GPU objects       *)
(* created through the device, `imports` the files read by the importer,   *)
(* and `src_prims` remembers, for every mesh, the primitives it was last    *)
(* built or rewritten from; the three are observers added to the struct's  *)
(* own fields.                                                             *)
(***************************************************************************)
SRGB == "Rgba8UnormSrgb"
UNORM == "Rgba8Unorm"
TextureFormats == {SRGB, UNORM}

default_uniform == [factor |-> 0, double_sided |-> 12345]

\* the sampler and texture tables as the manager is constructed: empty
\* caches and one default sampler at a known handle
SamplerDefault == 1
InitTextureTables ==
    [tex_by_mat |-> EmptyMap,
     tex_by_key |-> EmptyMap,
     textures |-> <<>>,
     sampler_by_name |-> EmptyMap,
     samplers |-> <<[label |-> None]>>,
     sampler_default |-> SamplerDefault]

\* A faulty free list that also offers slot 0: (0..MAX_MAT).rev()
InitMatFree_from_zero == [i \in 1..MAX_MAT |-> MAX_MAT - i]

\* (1..MAX_MAT).rev().collect()
InitMatFree == [i \in 1..(MAX_MAT - 1) |-> MAX_MAT - i]

AssetManager_new ==
    [meshes_by_name |-> EmptyMap,
     meshes |-> <<>>,
     mat_buffer |-> (0 :> default_uniform),
     mat_free |-> InitMatFree,
     mat_by_name |-> EmptyMap,
     device |-> [buffers |-> 1, textures |-> 3, samplers |-> 3],
     imports |-> [mesh |-> 0, material |-> 0, texture |-> 0, sampler |-> 0],
     src_prims |-> <<>>] @@ InitTextureTables

Ret(am, v) == [am |-> am, ok |-> TRUE, ret |-> v]
Panic(am) == [am |-> am, ok |-> FALSE, ret |-> None]

CountImport(am, kind) == [am EXCEPT !.imports[kind] = @ + 1]
CountDevice(am, kind) == [am EXCEPT !.device[kind] = @ + 1]

(***************************************************************************)
(* Samplers and textures (asset_manager/texture.rs)                        *)
(***************************************************************************)
\* self.samplers.insert(self.device.create_sampler(..)) and the cache entry
sampler_insert(a2, key, info) ==
    Ret([a2 EXCEPT !.samplers = Append(@, info @@ [label |-> Some(key)]),
                   !.sampler_by_name = MapInsert(@, key, Len(a2.samplers) + 1)],
        Len(a2.samplers) + 1)

\* the closure of or_insert_with, once the importer has answered
get_sampler_create(a1, key, info) ==
    IF ~info.ok THEN Panic(a1)
    ELSE sampler_insert(CountDevice(a1, "samplers"), key, info.val)

\* get_sampler after split_path
get_sampler_entry(am, key, sp) ==
    IF ~IsSome(sp) THEN Panic(am)
    ELSE IF key \in DOMAIN am.sampler_by_name
         THEN Ret(am, am.sampler_by_name[key])
         ELSE get_sampler_create(CountImport(am, "sampler"), key,
                                 load_sampler(Unwrap(sp).path, Unwrap(sp).selector))

get_sampler(am, key) == get_sampler_entry(am, key, split_path(key))

\* A faulty cache key that forgets the format.
TextureKey_by_key(key, format) == [key |-> key, format |-> SRGB]

\* struct TextureKey { key, format }
TextureKey(key, format) == [key |-> key, format |-> format]

\* self.textures.insert(GpuTexture {..}) and self.tex_by_key.insert
texture_insert(a2, key, format, tex_data, sampler_id) ==
    Ret([a2 EXCEPT
           !.textures = Append(@, [tex |-> [label |-> key,
                                            width |-> tex_data.width,
                                            height |-> tex_data.height,
                                            format |-> format,
                                            data |-> tex_data.pixels],
                                   sampler |-> sampler_id]),
           !.tex_by_key = MapInsert(@, TextureKey(key, format), Len(a2.textures) + 1)],
        Len(a2.textures) + 1)

\* get_texture once the sampler is resolved: create_texture_with_data
get_texture_create(key, format, tex_data, s) ==
    IF ~s.ok THEN Panic(s.am)
    ELSE texture_insert(CountDevice(s.am, "textures"), key, format, tex_data, s.ret)

\* get_texture once the importer has answered: the sampler of the texture
get_texture_sampler(a1, key, format, path, tex_data) ==
    IF ~tex_data.ok THEN Panic(a1)
    ELSE get_texture_create(key, format, tex_data.val,
             IF IsSome(tex_data.val.sampler)
             THEN get_sampler(a1, FormatKey(path, Unwrap(tex_data.val.sampler)))
             ELSE Ret(a1, a1.sampler_default))

\* get_texture after the cache lookup missed
get_texture_miss(am, key, format, sp) ==
    IF ~IsSome(sp) THEN Panic(am)
    ELSE get_texture_sampler(CountImport(am, "texture"), key, format, Unwrap(sp).path,
                             load_texture(Unwrap(sp).path, Unwrap(sp).selector))

get_texture(am, key, format) ==
    IF TextureKey(key, format) \in DOMAIN am.tex_by_key
    THEN Ret(am, am.tex_by_key[TextureKey(key, format)])
    ELSE get_texture_miss(am, key, format, split_path(key))

(***************************************************************************)
(* Materials (asset_manager/material.rs)                                   *)
(***************************************************************************)
\* material.X_texture.map(|info| self.get_texture(..)).unwrap()
resolve_texture(am, path, info, format) ==
    IF IsSome(info)
    THEN get_texture(am, FormatKey(path, Unwrap(info)), format)
    ELSE Panic(am)

\* A faulty pop that falls back to slot 0 when the list is empty.
mat_free_pop_or_zero(free) ==
    IF Len(free) = 0 THEN [rest |-> free, idx |-> Some(0)]
    ELSE [rest |-> SubSeq(free, 1, Len(free) - 1), idx |-> Some(free[Len(free)])]

\* A faulty pop that reads the last free slot and leaves it on the list.
mat_free_peek(free) ==
    IF Len(free) = 0 THEN [rest |-> free, idx |-> None]
    ELSE [rest |-> free, idx |-> Some(free[Len(free)])]

\* self.mat_free.pop(): the last element, None on an empty list
mat_free_pop(free) ==
    IF Len(free) = 0 THEN [rest |-> free, idx |-> None]
    ELSE [rest |-> SubSeq(free, 1, Len(free) - 1), idx |-> Some(free[Len(free)])]

\* A faulty end of get_material that builds a new material buffer holding
\* the new record only.
get_material_store_rebuild(am, name, m, group, popped) ==
    IF ~IsSome(popped.idx) THEN Panic(am)
    ELSE Ret([am EXCEPT
                !.mat_free = popped.rest,
                !.tex_by_mat = MapInsert(@, Unwrap(popped.idx), group),
                !.mat_buffer = MapInsert(EmptyMap, Unwrap(popped.idx),
                                         [factor |-> m.factor, double_sided |-> 0]),
                !.device.buffers = @ + 1,
                !.mat_by_name = MapInsert(@, name, Unwrap(popped.idx))],
             Unwrap(popped.idx))

\* the end of get_material: pop a slot, record the texture group, write
\* the uniform, insert the name
get_material_store(am, name, m, group, popped) ==
    IF ~IsSome(popped.idx) THEN Panic(am)
    ELSE Ret([am EXCEPT
                !.mat_free = popped.rest,
                !.tex_by_mat = MapInsert(@, Unwrap(popped.idx), group),
                !.mat_buffer = MapInsert(@, Unwrap(popped.idx),
                                         [factor |-> m.factor, double_sided |-> 0]),
                !.mat_by_name = MapInsert(@, name, Unwrap(popped.idx))],
             Unwrap(popped.idx))

\* get_material after emissive_tex
get_material_emissive(name, m, base, mr, normal, t) ==
    IF ~t.ok THEN Panic(t.am)
    ELSE get_material_store(t.am, name, m,
                            [base_color |-> base, metallic_roughness |-> mr,
                             normal |-> normal, emissive |-> t.ret, occlusion |-> normal],
                            mat_free_pop(t.am.mat_free))

\* get_material after normal_tex
get_material_normal(name, path, m, base, mr, t) ==
    IF ~t.ok THEN Panic(t.am)
    ELSE get_material_emissive(name, m, base, mr, t.ret,
                               resolve_texture(t.am, path, m.emissive_texture, SRGB))

\* get_material after metallic_roughness_tex
get_material_mr(name, path, m, base, t) ==
    IF ~t.ok THEN Panic(t.am)
    ELSE get_material_normal(name, path, m, base, t.ret,
                             resolve_texture(t.am, path, m.normal_texture, UNORM))

\* get_material after base_color_tex
get_material_base(name, path, m, t) ==
    IF ~t.ok THEN Panic(t.am)
    ELSE get_material_mr(name, path, m, t.ret,
                         resolve_texture(t.am, path, m.metallic_roughness_texture, UNORM))

\* get_material once the importer has answered
get_material_loaded(a1, name, path, material) ==
    IF ~material.ok THEN Panic(a1)
    ELSE get_material_base(name, path, material.val,
                           resolve_texture(a1, path, material.val.base_color_texture, SRGB))

\* get_material after the cache lookup missed
get_material_miss(a1, name, sk) ==
    get_material_loaded(a1, name, sk.path, load_material(sk.path, sk.selector))

get_material(am, name) ==
    IF name \in DOMAIN am.mat_by_name
    THEN Ret(am, am.mat_by_name[name])
    ELSE get_material_miss(CountImport(am, "material"), name, split_key(name))

(***************************************************************************)
(* Meshes (asset_manager/mesh.rs)                                          *)
(***************************************************************************)
U16 == "Uint16"
U32 == "Uint32"
\* A faulty minimum whose running value starts from 0.
aabb_min_from_zero(vertex) ==
    [k \in 1..3 |-> SetMin({0} \cup {v.position[k] : v \in vec_elems(vertex)})]

\* the min / max loops over prim.vertex, starting from +inf / -inf
aabb_min(vertex) ==
    [k \in 1..3 |-> SetMin({F32_INFINITY} \cup {v.position[k] : v \in vec_elems(vertex)})]
aabb_max(vertex) ==
    [k \in 1..3 |-> SetMax({F32_NEG_INFINITY} \cup {v.position[k] : v \in vec_elems(vertex)})]

\* the three pushes per triangle: base_vertex + a, base_vertex + b, base_vertex + c
rebase_indices(index, base_vertex) ==
    [j \in 1..(3 * Len(index)) |->
        (base_vertex + index[((j - 1) \div 3) + 1][((j - 1) % 3) + 1])]

\* A faulty iteration that records the vertex base after advancing it.
set_mesh_step_base_after(acc, prim) ==
    LET vcount == vec_len(prim.vertex)
        first_index == Len(acc.flat_indices_u32)
        index_count == IF Len(prim.index) # 0 THEN Len(prim.index) * 3 ELSE 0
    IN [flat_vertices |-> vec_extend(acc.flat_vertices, prim.vertex),
        flat_indices_u32 |-> acc.flat_indices_u32 \o rebase_indices(prim.index, acc.base_vertex),
        prim_ranges |-> Append(acc.prim_ranges,
                               [first_index |-> first_index,
                                index_count |-> index_count,
                                base_vertex |-> acc.base_vertex + vcount,
                                aabb_min |-> aabb_min(prim.vertex),
                                aabb_max |-> aabb_max(prim.vertex),
                                material |-> 0]),
        base_vertex |-> acc.base_vertex + vcount]

\* one iteration of the loop of set_mesh over the primitives
set_mesh_step(acc, prim) ==
    LET vcount == vec_len(prim.vertex)
        first_index == Len(acc.flat_indices_u32)
        index_count == IF Len(prim.index) # 0 THEN Len(prim.index) * 3 ELSE 0
    IN [flat_vertices |-> vec_extend(acc.flat_vertices, prim.vertex),
        flat_indices_u32 |-> acc.flat_indices_u32 \o rebase_indices(prim.index, acc.base_vertex),
        prim_ranges |-> Append(acc.prim_ranges,
                               [first_index |-> first_index,
                                index_count |-> index_count,
                                base_vertex |-> acc.base_vertex,
                                aabb_min |-> aabb_min(prim.vertex),
                                aabb_max |-> aabb_max(prim.vertex),
                                material |-> 0]),
        base_vertex |-> acc.base_vertex + vcount]

RECURSIVE set_mesh_loop(_, _, _)
set_mesh_loop(primitives, i, acc) ==
    IF i > Len(primitives) THEN acc
    ELSE set_mesh_loop(primitives, i + 1, set_mesh_step(acc, primitives[i]))

\* A faulty width test that looks at the vertex count only.
can_u16_by_count(base_vertex, flat_indices_u32) ==
    base_vertex <= U16_LIMIT

\* can_u16 = base_vertex <= 0x10000 && flat_indices_u32.iter().all(|&i| i < 0x10000)
can_u16(base_vertex, flat_indices_u32) ==
    /\ base_vertex <= U16_LIMIT
    /\ \A i \in 1..Len(flat_indices_u32) : flat_indices_u32[i] < U16_LIMIT

to_u16(flat_indices_u32) ==
    [i \in 1..Len(flat_indices_u32) |-> AsU16(flat_indices_u32[i])]

\* A faulty set_mesh that leaves the cache entry of a known name alone.
set_mesh_keep_entry(am, primitives, name) ==
    LET b == set_mesh_loop(primitives, 1,
                 [flat_vertices |-> <<>>, flat_indices_u32 |-> <<>>,
                  prim_ranges |-> <<>>, base_vertex |-> 0])
        vb_id == am.device.buffers + 1
        has_index == Len(b.flat_indices_u32) # 0
        narrow == can_u16(b.base_vertex, b.flat_indices_u32)
        mesh == [name |-> Some(name),
                 primitives |-> b.prim_ranges,
                 vertex_buf |-> [id |-> vb_id, data |-> b.flat_vertices],
                 index_buf |-> IF ~has_index THEN None
                               ELSE Some([id |-> vb_id + 1,
                                          data |-> IF narrow THEN to_u16(b.flat_indices_u32)
                                                   ELSE b.flat_indices_u32]),
                 index_format |-> IF ~has_index THEN None
                                  ELSE IF narrow THEN Some(U16) ELSE Some(U32),
                 vertex_count |-> b.base_vertex,
                 index_count |-> Len(b.flat_indices_u32)]
        id == Len(am.meshes) + 1
        a1 == [am EXCEPT
                 !.device.buffers = IF has_index THEN @ + 2 ELSE @ + 1,
                 !.meshes = Append(@, mesh),
                 !.src_prims = Append(@, primitives),
                 !.meshes_by_name = IF name \in DOMAIN @ THEN @
                                    ELSE MapInsert(@, name, id)]
    IN Ret(a1, id)

set_mesh(am, primitives, name) ==
    LET b == set_mesh_loop(primitives, 1,
                 [flat_vertices |-> <<>>, flat_indices_u32 |-> <<>>,
                  prim_ranges |-> <<>>, base_vertex |-> 0])
        vb_id == am.device.buffers + 1
        has_index == Len(b.flat_indices_u32) # 0
        narrow == can_u16(b.base_vertex, b.flat_indices_u32)
        mesh == [name |-> Some(name),
                 primitives |-> b.prim_ranges,
                 vertex_buf |-> [id |-> vb_id, data |-> b.flat_vertices],
                 index_buf |-> IF ~has_index THEN None
                               ELSE Some([id |-> vb_id + 1,
                                          data |-> IF narrow THEN to_u16(b.flat_indices_u32)
                                                   ELSE b.flat_indices_u32]),
                 index_format |-> IF ~has_index THEN None
                                  ELSE IF narrow THEN Some(U16) ELSE Some(U32),
                 vertex_count |-> b.base_vertex,
                 index_count |-> Len(b.flat_indices_u32)]
        id == Len(am.meshes) + 1
        a1 == [am EXCEPT
                 !.device.buffers = IF has_index THEN @ + 2 ELSE @ + 1,
                 !.meshes = Append(@, mesh),
                 !.src_prims = Append(@, primitives),
                 !.meshes_by_name = MapInsert(@, name, id)]
    IN Ret(a1, id)

\* A faulty lookup that does not find the mesh inserted last.
MeshLive_but_last(am, mesh_id) == mesh_id \in 1..(Len(am.meshes) - 1)

\* self.meshes.get(key) is Some
MeshLive(am, mesh_id) == mesh_id \in 1..Len(am.meshes)

\* set_mat writing the material of every range of the mesh
set_mat_every_range(am, mesh_id, idx, mat_id) ==
    IF MeshLive(am, mesh_id)
    THEN IF idx < Len(am.meshes[mesh_id].primitives)
         THEN Ret([am EXCEPT !.meshes[mesh_id].primitives =
                       [i \in DOMAIN @ |-> [@[i] EXCEPT !.material = mat_id]]], None)
         ELSE Panic(am)
    ELSE Panic(am)

set_mat(am, mesh_id, idx, mat_id) ==
    IF MeshLive(am, mesh_id)
    THEN IF idx < Len(am.meshes[mesh_id].primitives)
         THEN Ret([am EXCEPT !.meshes[mesh_id].primitives[idx + 1].material = mat_id], None)
         ELSE Panic(am)
    ELSE Panic(am)

\* A faulty choice that gives every primitive the default material.
get_mesh_material_default(am, path, prim) == Ret(am, 0)

\* the loop of get_mesh over primitives.iter().enumerate(), from position idx
\* the material of primitive prim in get_mesh
get_mesh_material(am, path, prim) ==
    IF IsSome(prim.material)
    THEN get_material(am, FormatKey(path, Unwrap(prim.material)))
    ELSE Ret(am, 0)

\* self.set_mat(id, idx, material) in the loop of get_mesh
get_mesh_set_mat(material, id, idx) ==
    IF ~material.ok THEN Panic(material.am)
    ELSE set_mat(material.am, id, idx, material.ret)

\* the loop of get_mesh over the primitives, from position idx; s is the
\* outcome of the step before
RECURSIVE get_mesh_materials(_, _, _, _, _)
get_mesh_materials(s, path, primitives, id, idx) ==
    IF ~s.ok THEN Panic(s.am)
    ELSE IF idx >= Len(primitives) THEN Ret(s.am, id)
    ELSE get_mesh_materials(
             get_mesh_set_mat(get_mesh_material(s.am, path, primitives[idx + 1]), id, idx),
             path, primitives, id, idx + 1)

\* get_mesh once the mesh is set
get_mesh_set(m, path, primitives) ==
    get_mesh_materials(Ret(m.am, None), path, primitives, m.ret, 0)

\* get_mesh once the importer has answered
get_mesh_loaded(a1, name, path, primitives) ==
    IF ~primitives.ok THEN Panic(a1)
    ELSE get_mesh_set(set_mesh(a1, primitives.val, name), path, primitives.val)

\* get_mesh after split_key
get_mesh_import(a1, name, sk) ==
    get_mesh_loaded(a1, name, sk.path, load_mesh(sk.path, sk.selector))

\* get_mesh after the cache lookup missed
get_mesh_miss(am, name) ==
    get_mesh_import(CountImport(am, "mesh"), name, split_key(name))

\* A faulty get_mesh that never consults meshes_by_name.
get_mesh_uncached(am, name) == get_mesh_miss(am, name)

get_mesh(am, name) ==
    IF name \in DOMAIN am.meshes_by_name
    THEN Ret(am, am.meshes_by_name[name])
    ELSE get_mesh_miss(am, name)

\* the first loop of rewrite_mesh: flatten vertices and rebased indices
rewrite_flatten_step(acc, prim) ==
    [flat_vertices |-> vec_extend(acc.flat_vertices, prim.vertex),
     flat_indices_u32 |-> acc.flat_indices_u32 \o rebase_indices(prim.index, acc.base_vertex),
     base_vertex |-> acc.base_vertex + vec_len(prim.vertex)]

RECURSIVE rewrite_flatten(_, _, _)
rewrite_flatten(primitives, i, acc) ==
    IF i > Len(primitives) THEN acc
    ELSE rewrite_flatten(primitives, i + 1, rewrite_flatten_step(acc, primitives[i]))

\* A faulty range step that never advances the running vertex base.
rewrite_range_step_flat(acc, prim) ==
    LET index_count == Len(prim.index) * 3
    IN [prim_ranges |-> Append(acc.prim_ranges,
                               [first_index |-> acc.cur_first_index,
                                index_count |-> index_count,
                                base_vertex |-> acc.cur_base,
                                aabb_min |-> aabb_min(prim.vertex),
                                aabb_max |-> aabb_max(prim.vertex),
                                material |-> 0]),
        cur_first_index |-> (acc.cur_first_index + index_count),
        cur_base |-> acc.cur_base]

\* A faulty range step that gives each range the material slot 1.
rewrite_range_step_slot_one(acc, prim) ==
    LET index_count == Len(prim.index) * 3
    IN [prim_ranges |-> Append(acc.prim_ranges,
                               [first_index |-> acc.cur_first_index,
                                index_count |-> index_count,
                                base_vertex |-> acc.cur_base,
                                aabb_min |-> aabb_min(prim.vertex),
                                aabb_max |-> aabb_max(prim.vertex),
                                material |-> 1]),
        cur_first_index |-> (acc.cur_first_index + index_count),
        cur_base |-> acc.cur_base + vec_len(prim.vertex)]

\* the second loop of rewrite_mesh: rebuild the primitive ranges
rewrite_range_step(acc, prim) ==
    LET index_count == Len(prim.index) * 3
    IN [prim_ranges |-> Append(acc.prim_ranges,
                               [first_index |-> acc.cur_first_index,
                                index_count |-> index_count,
                                base_vertex |-> acc.cur_base,
                                aabb_min |-> aabb_min(prim.vertex),
                                aabb_max |-> aabb_max(prim.vertex),
                                material |-> 0]),
        cur_first_index |-> (acc.cur_first_index + index_count),
        cur_base |-> acc.cur_base + vec_len(prim.vertex)]

RECURSIVE rewrite_ranges(_, _, _)
rewrite_ranges(primitives, i, acc) ==
    IF i > Len(primitives) THEN acc
    ELSE rewrite_ranges(primitives, i + 1, rewrite_range_step(acc, primitives[i]))

\* A faulty precondition that compares the vertex totals only.
rewrite_vertex_count_matches(mesh, base_vertex, flat_indices_u32) ==
    base_vertex = mesh.vertex_count

\* A faulty precondition that compares the index totals only.
rewrite_index_count_matches(mesh, base_vertex, flat_indices_u32) ==
    Len(flat_indices_u32) = mesh.index_count

\* the two assert_eq! of rewrite_mesh
rewrite_counts_match(mesh, base_vertex, flat_indices_u32) ==
    /\ base_vertex = mesh.vertex_count
    /\ Len(flat_indices_u32) = mesh.index_count

\* the index data written by rewrite_mesh, by the mesh's index format
rewrite_index_data(mesh, flat_indices_u32) ==
    IF mesh.index_format = Some(U16) THEN to_u16(flat_indices_u32)
    ELSE flat_indices_u32

rewrite_mesh(am, mesh_id, primitives) ==
    IF ~MeshLive(am, mesh_id) THEN Panic(am)
    ELSE LET mesh == am.meshes[mesh_id]
             f == rewrite_flatten(primitives, 1,
                      [flat_vertices |-> <<>>, flat_indices_u32 |-> <<>>, base_vertex |-> 0])
         IN IF ~rewrite_counts_match(mesh, f.base_vertex, f.flat_indices_u32) THEN Panic(am)
            ELSE LET r == rewrite_ranges(primitives, 1,
                              [prim_ranges |-> <<>>, cur_first_index |-> 0, cur_base |-> 0])
                     new_mesh == [mesh EXCEPT
                         !.vertex_buf.data = f.flat_vertices,
                         !.index_buf = IF IsSome(@) /\ IsSome(mesh.index_format)
                                       THEN Some([Unwrap(@) EXCEPT
                                                !.data = rewrite_index_data(mesh, f.flat_indices_u32)])
                                       ELSE @,
                         !.primitives = r.prim_ranges]
                 IN Ret([am EXCEPT !.meshes[mesh_id] = new_mesh,
                                   !.src_prims[mesh_id] = primitives], None)

(***************************************************************************)
(* ForwardRenderer (render.rs)                                             *)
(***************************************************************************)
\* size_of::<MatId>(): one u32 and 63 u32 of padding
MAT_ID_SIZE == 256

\* Camera::view_proj with the eye position: the uniform is determined by
\* the camera's eye and aspect (the other fields are the same in every
\* camera used here)
camera_uniform(cam) ==
    [view_proj |-> [eye |-> cam.eye, aspect |-> cam.aspect], camera_pos |-> cam.eye]

CameraUniform_identity == [view_proj |-> "identity", camera_pos |-> 0]

\* LightUniform::from(&Light)
light_type(kind) == IF kind = "Point" THEN 0 ELSE IF kind = "Directional" THEN 1 ELSE 2
light_uniform(l) == [position |-> l.position, light_type |-> light_type(l.kind)]

\* A faulty upload whose count record holds the length of the whole list.
upload_lights_untruncated(ssbo, lights) ==
    LET count == Min2(Len(lights), MAX_LIGHTS)
        tmp == [i \in 1..count |-> light_uniform(lights[i])]
    IN [light_ssbo |-> [data |-> [i \in 1..MAX_LIGHTS |->
                                     IF i <= count THEN tmp[i] ELSE ssbo.data[i]],
                        writes |-> IF count > 0 THEN ssbo.writes + 1 ELSE ssbo.writes],
        light_params |-> [count |-> Len(lights)],
        uploaded |-> tmp]

\* the block "upload lights" of render
upload_lights(ssbo, lights) ==
    LET count == Min2(Len(lights), MAX_LIGHTS)
        tmp == [i \in 1..count |-> light_uniform(lights[i])]
    IN [light_ssbo |-> [data |-> [i \in 1..MAX_LIGHTS |->
                                     IF i <= count THEN tmp[i] ELSE ssbo.data[i]],
                        writes |-> IF count > 0 THEN ssbo.writes + 1 ELSE ssbo.writes],
        light_params |-> [count |-> count],
        uploaded |-> tmp]

\* A faulty loop that uses the slot number itself as the byte offset.
RECURSIVE draw_primitives_offset_slot(_, _)
draw_primitives_offset_slot(primitives, i) ==
    IF i > Len(primitives) THEN <<>>
    ELSE LET p == primitives[i]
         IN << [op |-> "set_bind_group", index |-> 3, offset |-> p.material],
               [op |-> "draw_indexed", first |-> p.first_index,
                end |-> (p.first_index + p.index_count),
                base_vertex |-> p.base_vertex] >>
             \o draw_primitives_offset_slot(primitives, i + 1)

\* the inner loop of render over mesh.primitives, from position i
RECURSIVE draw_primitives(_, _)
draw_primitives(primitives, i) ==
    IF i > Len(primitives) THEN <<>>
    ELSE LET p == primitives[i]
         IN << [op |-> "set_bind_group", index |-> 3,
                offset |-> (p.material * MAT_ID_SIZE)],
               [op |-> "draw_indexed", first |-> p.first_index,
                end |-> (p.first_index + p.index_count),
                base_vertex |-> p.base_vertex] >>
             \o draw_primitives(primitives, i + 1)

\* A faulty loop body that draws the ranges of a mesh without index buffer.
draw_mesh_unindexed(mesh) ==
    << [op |-> "set_vertex_buffer", buffer |-> mesh.vertex_buf.id] >>
    \o IF IsSome(mesh.index_buf) /\ IsSome(mesh.index_format)
       THEN << [op |-> "set_index_buffer", buffer |-> Unwrap(mesh.index_buf).id,
                format |-> Unwrap(mesh.index_format)] >>
            \o draw_primitives(mesh.primitives, 1)
       ELSE draw_primitives(mesh.primitives, 1)

draw_mesh(mesh) ==
    << [op |-> "set_vertex_buffer", buffer |-> mesh.vertex_buf.id] >>
    \o IF IsSome(mesh.index_buf) /\ IsSome(mesh.index_format)
       THEN << [op |-> "set_index_buffer", buffer |-> Unwrap(mesh.index_buf).id,
                format |-> Unwrap(mesh.index_format)] >>
            \o draw_primitives(mesh.primitives, 1)
       ELSE <<>>

\* the loop of render over the draw commands, from position i; ok is FALSE
\* when a command's mesh is not found
RECURSIVE draw_commands(_, _, _)
draw_commands(am, action, i) ==
    IF i > Len(action) THEN [ok |-> TRUE, commands |-> <<>>]
    ELSE IF ~MeshLive(am, action[i]) THEN [ok |-> FALSE, commands |-> <<>>]
         ELSE LET rest == draw_commands(am, action, i + 1)
              IN [ok |-> rest.ok,
                  commands |-> draw_mesh(am.meshes[action[i]]) \o rest.commands]

pass_prologue ==
    << [op |-> "begin_render_pass"],
       [op |-> "set_pipeline"],
       [op |-> "set_bind_group", index |-> 0, offset |-> 0],
       [op |-> "set_bind_group", index |-> 1, offset |-> 0],
       [op |-> "set_bind_group", index |-> 2, offset |-> 0] >>

RECURSIVE GCD(_, _)
GCD(a, b) == IF b = 0 THEN a ELSE GCD(b, a % b)
\* A faulty ratio: height over width.
Ratio_inverted(w, h) == <<h \div GCD(w, h), w \div GCD(w, h)>>

\* `width as f32 / height as f32`, as a reduced fraction
Ratio(w, h) == <<w \div GCD(w, h), h \div GCD(w, h)>>

\* the part of render after a successful get_current_texture: the trace of
\* queue and render pass calls, and the light buffers
\* A faulty frame that uploads the lights after the render pass has begun.
render_frame_upload_in_pass(am, ssbo, lights, action) ==
    LET up == upload_lights(ssbo, lights)
        d == draw_commands(am, action, 1)
        writes == (IF Len(up.uploaded) > 0
                   THEN << [op |-> "write_buffer", buffer |-> "light_ssbo", data |-> up.uploaded] >>
                   ELSE <<>>)
                  \o << [op |-> "write_buffer", buffer |-> "light_params",
                         data |-> up.light_params] >>
    IN [ok |-> d.ok,
        light_ssbo |-> up.light_ssbo,
        light_params |-> up.light_params,
        trace |-> pass_prologue \o writes \o d.commands
                  \o IF d.ok THEN << [op |-> "submit"], [op |-> "present"] >> ELSE <<>>]

\* A faulty frame that presents before it submits.
render_frame_present_first(am, ssbo, lights, action) ==
    LET up == upload_lights(ssbo, lights)
        d == draw_commands(am, action, 1)
        writes == (IF Len(up.uploaded) > 0
                   THEN << [op |-> "write_buffer", buffer |-> "light_ssbo", data |-> up.uploaded] >>
                   ELSE <<>>)
                  \o << [op |-> "write_buffer", buffer |-> "light_params",
                         data |-> up.light_params] >>
    IN [ok |-> d.ok,
        light_ssbo |-> up.light_ssbo,
        light_params |-> up.light_params,
        trace |-> writes \o pass_prologue \o d.commands
                  \o IF d.ok THEN << [op |-> "present"], [op |-> "submit"] >> ELSE <<>>]

render_frame(am, ssbo, lights, action) ==
    LET up == upload_lights(ssbo, lights)
        d == draw_commands(am, action, 1)
        writes == (IF Len(up.uploaded) > 0
                   THEN << [op |-> "write_buffer", buffer |-> "light_ssbo", data |-> up.uploaded] >>
                   ELSE <<>>)
                  \o << [op |-> "write_buffer", buffer |-> "light_params",
                         data |-> up.light_params] >>
    IN [ok |-> d.ok,
        light_ssbo |-> up.light_ssbo,
        light_params |-> up.light_params,
        trace |-> writes \o pass_prologue \o d.commands
                  \o IF d.ok THEN << [op |-> "submit"], [op |-> "present"] >> ELSE <<>>]

(***************************************************************************)
(* State machine                                                           *)
(***************************************************************************)
NoCall == [op |-> "none", arg |-> None, ret |-> None, ok |-> TRUE]

InitAsset ==
    /\ asset = AssetManager_new
    /\ pc = "Ready"
    /\ last = NoCall
    /\ prev = NoCall
    /\ ncalls = 0
    /\ input = None

\* ForwardRenderer::new on a window of size (w, h)
\* the renderer as ForwardRenderer::new builds it on a surface of w by h.
\* A faulty table whose record i holds the id i + 1.
mat_id_table_from_one(i) == i + 1

\* create_material_id: (0..max_ids).map(|i| MatId { id: i, .. }), the id
\* held by record i of the material-index buffer
mat_id_table(i) == i

\* pipeline_state holds the objects built once: the pipeline, the material
\* bind group over the manager's material buffer, and the buffer of MAX_MAT
\* material ids with its dynamic-offset bind group
RendererNew(w, h) ==
    [config |-> [width |-> w, height |-> h],
     surface |-> [width |-> w, height |-> h, configures |-> 1],
     depth_tex |-> [id |-> 1, width |-> w, height |-> h],
     camera |-> [eye |-> 0, aspect |-> Ratio(1, 1)],
     camera_buffer |-> [data |-> CameraUniform_identity, writes |-> 0],
     light_ssbo |-> [data |-> [i \in 1..MAX_LIGHTS |-> 0], writes |-> 0],
     light_params |-> [count |-> 0],
     pipeline_state |-> [pipeline |-> 1,
                         mat_bg |-> [id |-> 1, buffer |-> "mat_buffer"],
                         mat_id_buffer |-> [ids |-> MAX_MAT, writes |-> 1],
                         mat_id_bg |-> [id |-> 1, buffer |-> "mat_id_buffer",
                                        size |-> MAT_ID_SIZE]]]

\* the application record of a program whose renderer was built directly
AppBuilt == [target |-> "native", window |-> TRUE, renderer |-> TRUE,
             pending |-> FALSE, constructed |-> 1, ignored |-> 0]

InitRenderer(w, h) ==
    /\ config = RendererNew(w, h).config
    /\ surface = RendererNew(w, h).surface
    /\ depth_tex = RendererNew(w, h).depth_tex
    /\ camera = RendererNew(w, h).camera
    /\ camera_buffer = RendererNew(w, h).camera_buffer
    /\ light_ssbo = RendererNew(w, h).light_ssbo
    /\ light_params = RendererNew(w, h).light_params
    /\ pipeline_state = RendererNew(w, h).pipeline_state
    /\ frame = <<>>
    /\ app = AppBuilt

Init == InitAsset /\ InitRenderer(1, 1)

CanCall(bound) == pc = "Ready" /\ ncalls < bound

\* the effect of one call on the asset manager: r is the operation's result
Call(op, arg, r) ==
    /\ asset' = r.am
    /\ pc' = IF r.ok THEN "Ready" ELSE "Panicked"
    /\ last' = [op |-> op, arg |-> arg, ret |-> r.ret, ok |-> r.ok]
    /\ prev' = last
    /\ ncalls' = ncalls + 1
    /\ UNCHANGED <<input, renderVars, app>>

K(path, sel) == path \o <<"#">> \o sel
MeshKeys == {K(PathA, NameCube), K(PathA, <<"1">>), K(PathA, <<"2">>), <<"b">>,
             PathA, K(PathA, NameHash), K(PathA, <<"7">>), PathC}
MatKeys == {K(PathA, <<"0">>), K(PathA, NameMat), K(PathA, <<"1">>), K(PathA, <<"X">>)}
TexKeys == {K(PathA, <<"0">>), K(PathA, <<"1">>), K(PathA, <<"7">>)}
SamplerKeys == {K(PathA, <<"0">>), K(PathA, <<"5">>), PathA}
MeshNames == {<<"m">>, K(PathA, <<"1">>)}

\* engine primitives handed to set_mesh and rewrite_mesh by the game code
PrimA == import_primitive(GltfPrimA)
PrimB == import_primitive(GltfPrimB)
PrimC == import_primitive(GltfPrimC)
PrimA1 == [PrimA EXCEPT !.index = <<<<0, 1, 2>>>>]
PrimT == [vertex |-> Verts(<<V(0, 0, 0), V(1, 2, 3), V(-1, 0, 5)>>),
          index |-> <<<<0, 1, 2>>>>,
          material |-> None]
Prim7 == [vertex |-> vec_extend(PrimB.vertex, PrimA.vertex),
          index |-> <<<<0, 1, 2>>, <<3, 4, 5>>, <<4, 5, 6>>>>,
          material |-> None]
SetLists == {<<PrimA, PrimB>>, <<PrimC>>, <<Prim7>>, <<PrimT, PrimB>>}
\* PrimA with an index value that does not fit 16 bits
PrimAWide == [PrimA EXCEPT !.index = <<<<0, 1, 2>>, <<0, 2, U16_LIMIT + 3>>>>]
RewriteLists == {<<PrimB, PrimA>>, <<Prim7>>, <<PrimA1, PrimB>>, <<PrimC>>, <<PrimAWide, PrimB>>}
MeshIds == {1, 2}
SetMatIds == {1, 3}
SetMatIdx == {0, 1, 2}
SetMatMats == {5}

GetMesh ==
    \E k \in MeshKeys :
        CanCall(MaxCalls) /\ Call("get_mesh", [key |-> k], get_mesh(asset, k))

GetMaterial ==
    \E k \in MatKeys :
        CanCall(MaxCalls) /\ Call("get_material", [key |-> k], get_material(asset, k))

GetTexture ==
    \E k \in TexKeys, f \in TextureFormats :
        CanCall(MaxCalls)
        /\ Call("get_texture", [key |-> k, format |-> f], get_texture(asset, k, f))

GetSampler ==
    \E k \in SamplerKeys :
        CanCall(MaxCalls) /\ Call("get_sampler", [key |-> k], get_sampler(asset, k))

SetMesh ==
    \E n \in MeshNames, ps \in SetLists :
        CanCall(MaxCalls)
        /\ Call("set_mesh", [name |-> n, primitives |-> ps], set_mesh(asset, ps, n))

RewriteMesh ==
    \E id \in MeshIds, ps \in RewriteLists :
        CanCall(MaxCalls)
        /\ Call("rewrite_mesh", [mesh_id |-> id, primitives |-> ps],
                rewrite_mesh(asset, id, ps))

SetMat ==
    \E id \in SetMatIds, idx \in SetMatIdx, m \in SetMatMats :
        CanCall(MaxCalls)
        /\ Call("set_mat", [mesh_id |-> id, idx |-> idx, mat_id |-> m],
                set_mat(asset, id, idx, m))

Next == GetMesh \/ GetMaterial \/ GetTexture \/ GetSampler
        \/ SetMesh \/ RewriteMesh \/ SetMat

Spec == Init /\ [][Next]_vars

(***************************************************************************)
(* Renderer state machine: render and resize on a renderer whose asset     *)
(* manager already holds the meshes "a#Cube" (indexed, two primitives)     *)
(* and "a#1" (no index buffer).                                            *)
(***************************************************************************)
AcquireErrors == {"Lost", "Outdated", "OutOfMemory", "Timeout", "Other"}
AcquireOutcomes == {"Ok"} \cup AcquireErrors

\* A faulty match that skips the frame on OutOfMemory.
on_acquire_error_oom_skips(err) ==
    IF err \in {"Lost", "Outdated"} THEN "configure" ELSE "skip"

\* A faulty match that exits on Timeout as it does on OutOfMemory.
on_acquire_error_timeout_exits(err) ==
    IF err \in {"Lost", "Outdated"} THEN "configure"
    ELSE IF err \in {"OutOfMemory", "Timeout"} THEN "exit"
    ELSE "skip"

\* the match on the SurfaceError of get_current_texture: what render does
\* before it returns
on_acquire_error(err) ==
    IF err \in {"Lost", "Outdated"} THEN "configure"
    ELSE IF err = "OutOfMemory" THEN "exit"
    ELSE "skip"

\* A faulty early return that needs both dimensions to be zero.
resize_is_noop_both(width, height) == width = 0 /\ height = 0

\* the early return of resize
resize_is_noop(width, height) == width = 0 \/ height = 0

LightKinds == <<"Point", "Directional", "Spot">>
\* a light list of length n; the lights are pairwise different
Lights(n) == [i \in 1..n |-> [kind |-> LightKinds[(i % 3) + 1], position |-> i]]
LightLens == {0, 1, MAX_LIGHTS, MaxLights}
Cameras == {[eye |-> 1, aspect |-> Ratio(16, 9)], [eye |-> 2, aspect |-> Ratio(1, 2)]}
Actions == {<<1>>, <<2, 1>>, <<3>>}
Dims == 0..MaxDim

AssetWithMeshes ==
    get_mesh(get_mesh(AssetManager_new, K(PathA, NameCube)).am, K(PathA, <<"1">>)).am

InitRender ==
    /\ asset = AssetWithMeshes
    /\ pc = "Ready"
    /\ last = NoCall
    /\ prev = NoCall
    /\ ncalls = 0
    /\ input = None
    /\ InitRenderer(1, 1)

\* A faulty assignment that keeps the aspect of the stored camera.
render_camera_keep_aspect(stored, cam) == [cam EXCEPT !.aspect = stored.aspect]

\* self.camera = cam.clone()
render_camera(stored, cam) == cam

\* A faulty update that leaves the camera buffer as it is.
update_camera_buffer_skipped(cam) == camera_buffer

update_camera_buffer(cam) ==
    [data |-> camera_uniform(cam), writes |-> camera_buffer.writes + 1]

CameraWrite(cam) == [op |-> "write_buffer", buffer |-> "camera_buffer",
                     data |-> camera_uniform(cam)]
Acquire(outcome) == [op |-> "get_current_texture", outcome |-> outcome]

\* ForwardRenderer::render(lights, cam, action) on asset manager am, with
\* the outcome acq of get_current_texture
RenderCall(am, lights, cam, action, acq) ==
    LET begin == << CameraWrite(render_camera(camera, cam)), Acquire(acq) >>
    IN
    /\ ncalls' = ncalls + 1
    /\ prev' = last
    /\ camera' = render_camera(camera, cam)
    /\ camera_buffer' = update_camera_buffer(camera')
    /\ UNCHANGED <<input, config, depth_tex, pipeline_state>>
    /\ IF acq = "Ok"
       THEN LET f == render_frame(am, light_ssbo, lights, action)
            IN /\ light_ssbo' = f.light_ssbo
               /\ light_params' = f.light_params
               /\ frame' = begin \o f.trace
               /\ pc' = IF f.ok THEN "Ready" ELSE "Panicked"
               /\ last' = [op |-> "render",
                           arg |-> [lights |-> lights, cam |-> cam,
                                    action |-> action, acq |-> acq],
                           ret |-> None, ok |-> f.ok]
               /\ UNCHANGED surface
       ELSE /\ UNCHANGED <<light_ssbo, light_params>>
            /\ last' = [op |-> "render",
                        arg |-> [lights |-> lights, cam |-> cam,
                                 action |-> action, acq |-> acq],
                        ret |-> None, ok |-> TRUE]
            /\ IF on_acquire_error(acq) = "configure"
               THEN /\ surface' = [width |-> config.width, height |-> config.height,
                                   configures |-> surface.configures + 1]
                    /\ frame' = begin \o << [op |-> "configure"] >>
                    /\ pc' = "Ready"
               ELSE IF on_acquire_error(acq) = "exit"
                    THEN /\ frame' = begin \o << [op |-> "exit"] >>
                         /\ pc' = "Exited"
                         /\ UNCHANGED surface
                    ELSE /\ frame' = begin
                         /\ pc' = "Ready"
                         /\ UNCHANGED surface

Render ==
    \E n \in LightLens, cam \in Cameras, action \in Actions, acq \in AcquireOutcomes :
        \* a call whose acquisition fails never reads its lights or commands:
        \* one list of each stands for all of them
        /\ acq # "Ok" => (n = 1 /\ action = <<2, 1>>)
        /\ CanCall(MaxFrames)
        /\ RenderCall(asset, Lights(n), cam, action, acq)
        /\ UNCHANGED <<asset, app>>

\* A faulty resize that keeps the depth texture it has.
ResizeCall_keep_depth(width, height) ==
    /\ ncalls' = ncalls + 1
    /\ prev' = last
    /\ last' = [op |-> "resize", arg |-> [width |-> width, height |-> height],
                ret |-> None, ok |-> TRUE]
    /\ UNCHANGED <<input, pc, light_ssbo, light_params, frame, pipeline_state>>
    /\ IF resize_is_noop(width, height)
       THEN UNCHANGED <<config, surface, depth_tex, camera, camera_buffer>>
       ELSE /\ config' = [width |-> width, height |-> height]
            /\ surface' = [width |-> width, height |-> height,
                           configures |-> surface.configures + 1]
            /\ depth_tex' = depth_tex
            /\ camera' = [camera EXCEPT !.aspect = Ratio(width, height)]
            /\ camera_buffer' = update_camera_buffer(camera')

\* ForwardRenderer::resize(width, height)
ResizeCall(width, height) ==
    /\ ncalls' = ncalls + 1
    /\ prev' = last
    /\ last' = [op |-> "resize", arg |-> [width |-> width, height |-> height],
                ret |-> None, ok |-> TRUE]
    /\ UNCHANGED <<input, pc, light_ssbo, light_params, frame, pipeline_state>>
    /\ IF resize_is_noop(width, height)
       THEN UNCHANGED <<config, surface, depth_tex, camera, camera_buffer>>
       ELSE /\ config' = [width |-> width, height |-> height]
            /\ surface' = [width |-> width, height |-> height,
                           configures |-> surface.configures + 1]
            /\ depth_tex' = [id |-> depth_tex.id + 1, width |-> width, height |-> height]
            /\ camera' = [camera EXCEPT !.aspect = Ratio(width, height)]
            /\ camera_buffer' = update_camera_buffer(camera')

Resize ==
    \E width \in Dims, height \in Dims :
        /\ CanCall(MaxFrames)
        /\ ResizeCall(width, height)
        /\ UNCHANGED <<asset, app>>

NextRender == Render \/ Resize

SpecRender == InitRender /\ [][NextRender]_vars

(***************************************************************************)
(* set_mesh on primitive lists around the 16-bit limit: the lists are      *)
(* drawn in the initial state and one call builds the mesh.                *)
(***************************************************************************)
WidePrim(n, index) == [vertex |-> Repeat(V(0, 0, 0), n), index |-> index,
                       material |-> None]
WidePrims ==
    { WidePrim(U16_LIMIT - 1, <<<<0, 1, U16_LIMIT - 2>>>>),
      WidePrim(U16_LIMIT, <<<<0, 1, U16_LIMIT - 1>>>>),
      WidePrim(U16_LIMIT + 1, <<<<0, 1, 2>>>>),
      WidePrim(U16_LIMIT + 1, <<<<0, 1, U16_LIMIT>>>>),
      WidePrim(1, <<<<0, 0, 0>>>>),
      WidePrim(2, <<<<0, 1, 1>>, <<1, 0, 0>>>>),
      WidePrim(3, <<>>),
      WidePrim(3, <<<<0, 1, U16_LIMIT>>>>) }
WideLists == {<<p>> : p \in WidePrims} \cup {<<p, q>> : p \in WidePrims, q \in WidePrims}
WideName == <<"w">>

InitWide ==
    /\ asset = AssetManager_new
    /\ pc = "Ready"
    /\ last = NoCall
    /\ prev = NoCall
    /\ ncalls = 0
    /\ input \in {Some(ps) : ps \in WideLists}
    /\ InitRenderer(1, 1)

SetMeshWide ==
    /\ CanCall(1)
    /\ IsSome(input)
    /\ LET r == set_mesh(asset, Unwrap(input), WideName)
       IN /\ asset' = r.am
          /\ last' = [op |-> "set_mesh", arg |-> [name |-> WideName], ret |-> r.ret, ok |-> r.ok]
    /\ ncalls' = ncalls + 1
    /\ UNCHANGED <<pc, prev, input, renderVars, app>>

NextWide == SetMeshWide

SpecWide == InitWide /\ [][NextWide]_vars

(***************************************************************************)
(* Material capacity: get_material on an asset manager that has already    *)
(* created all but SpareSlots of its MAX_MAT - 1 materials, from the keys  *)
(* "c#0", "c#1", ...                                                       *)
(***************************************************************************)
SpareSlots == 2
FilledCount == MAX_MAT - 1 - SpareSlots

\* the asset manager am after get_material("c#lo"), ..., get_material("c#(hi-1)"),
\* called in this order.  The calls are split in halves, and the first
\* half is evaluated (its free list is read) before the second starts, to
\* keep the evaluation shallow; the free list always has a length, so the
\* ELSE branch is never taken.
RECURSIVE Filled(_, _, _)
Filled(am, lo, hi) ==
    IF lo >= hi THEN am
    ELSE IF hi = lo + 1 THEN get_material(am, FormatKey(PathC, lo)).am
    ELSE LET first == Filled(am, lo, (lo + hi) \div 2)
         IN IF Len(first.mat_free) >= 0
            THEN Filled(first, (lo + hi) \div 2, hi)
            ELSE first

FilledAsset == Filled(AssetManager_new, 0, FilledCount)

\* two keys created before, the keys of the next materials of the file
\* (two more than there are slots left), a key of no material, and a
\* material of file "a", whose textures are not in the cache yet
FullKeys == {FormatKey(PathC, 0), FormatKey(PathC, 1)}
            \cup {FormatKey(PathC, FilledCount + j) : j \in 0..(SpareSlots + 1)}
            \cup {FormatKey(PathC, MAX_MAT + 2)}
            \cup {FormatKey(PathA, 0)}

InitFull ==
    /\ asset = FilledAsset
    /\ pc = "Ready"
    /\ last = NoCall
    /\ prev = NoCall
    /\ ncalls = 0
    /\ input = None
    /\ InitRenderer(1, 1)

GetMaterialFull ==
    \E k \in FullKeys :
        CanCall(MaxCalls) /\ Call("get_material", [key |-> k], get_material(asset, k))

\* get_mesh of a mesh whose first primitive has a material not created yet
FullMeshKeys == {K(PathA, NameCube)}
GetMeshFull ==
    \E k \in FullMeshKeys :
        CanCall(MaxCalls) /\ Call("get_mesh", [key |-> k], get_mesh(asset, k))

NextFull == GetMaterialFull \/ GetMeshFull

SpecFull == InitFull /\ [][NextFull]_vars

(***************************************************************************)
(* get_sampler on the file that holds every kind of sampler.               *)
(***************************************************************************)
MaxSamplerCalls == 1

GetSamplerOfS ==
    \E selector \in 0..SamplerCount :
        /\ CanCall(MaxSamplerCalls)
        /\ Call("get_sampler", [key |-> FormatKey(PathS, selector)],
                get_sampler(asset, FormatKey(PathS, selector)))

NextSampler == GetSamplerOfS

SpecSampler == Init /\ [][NextSampler]_vars

(***************************************************************************)
(* The application's event handlers (app.rs).  The program starts with no  *)
(* window and no renderer; the event loop delivers resumed, redraw,        *)
(* resize and close events in any order.  On the native target resumed     *)
(* builds the renderer before it returns; on wasm32 it spawns a task that  *)
(* stores the renderer when it completes.  While app.renderer is FALSE     *)
(* the renderer's variables hold no renderer (None).  The fields           *)
(* `constructed` and `ignored` count the renderers built and the redraw    *)
(* and resize events dropped for want of one.                              *)
(***************************************************************************)
MaxEvents == 4

\* App { world, renderer: None, window: None }
App_new(target) ==
    [target |-> target, window |-> FALSE, renderer |-> FALSE,
     pending |-> FALSE, constructed |-> 0, ignored |-> 0]

InitApp ==
    /\ app \in {App_new(t) : t \in {"native", "wasm32"}}
    /\ asset = None
    /\ config = None /\ surface = None /\ depth_tex = None /\ camera = None
    /\ camera_buffer = None /\ light_ssbo = None /\ light_params = None
    /\ pipeline_state = None /\ frame = <<>>
    /\ pc = "Ready" /\ last = NoCall /\ prev = NoCall /\ ncalls = 0 /\ input = None

\* an event handler that leaves the renderer alone
AppEvent(op, app_next, pc_next) ==
    /\ ncalls' = ncalls + 1
    /\ prev' = last
    /\ last' = [op |-> op, arg |-> None, ret |-> None, ok |-> pc_next # "Panicked"]
    /\ app' = app_next
    /\ pc' = pc_next
    /\ UNCHANGED <<asset, input, renderVars>>

\* ForwardRenderer::new(&window) has returned Ok: self.renderer = Some(renderer)
RendererBuilt(op) ==
    /\ ncalls' = ncalls + 1
    /\ prev' = last
    /\ last' = [op |-> op, arg |-> None, ret |-> None, ok |-> TRUE]
    /\ app' = [app EXCEPT !.window = TRUE, !.renderer = TRUE, !.pending = FALSE,
                          !.constructed = @ + 1]
    /\ asset' = AssetManager_new
    /\ config' = RendererNew(1, 1).config
    /\ surface' = RendererNew(1, 1).surface
    /\ depth_tex' = RendererNew(1, 1).depth_tex
    /\ camera' = RendererNew(1, 1).camera
    /\ camera_buffer' = RendererNew(1, 1).camera_buffer
    /\ light_ssbo' = RendererNew(1, 1).light_ssbo
    /\ light_params' = RendererNew(1, 1).light_params
    /\ pipeline_state' = RendererNew(1, 1).pipeline_state
    /\ UNCHANGED <<input, frame, pc>>

\* A faulty test that takes the window to be missing at every resumed event.
window_is_none_always(a) == TRUE

\* self.window.is_none()
window_is_none(a) == ~a.window

\* App::resumed.  create_window and ForwardRenderer::new may fail, and
\* unwrap or expect then panics.
App_resumed ==
    /\ CanCall(MaxEvents)
    /\ IF ~window_is_none(app) THEN AppEvent("resumed", app, "Ready")
       ELSE IF app.target = "native"
            THEN \/ RendererBuilt("resumed")
                 \/ AppEvent("resumed", app, "Panicked")
            ELSE \/ AppEvent("resumed", [app EXCEPT !.window = TRUE, !.pending = TRUE], "Ready")
                 \/ AppEvent("resumed", app, "Panicked")

\* the task spawned by resumed on wasm32 runs to its end
App_renderer_task ==
    /\ CanCall(MaxEvents)
    /\ app.pending
    /\ \/ RendererBuilt("renderer_task")
       \/ AppEvent("renderer_task", [app EXCEPT !.pending = FALSE], "Panicked")

\* the mesh, the light and the camera of the redraw handler; the file of
\* the mesh may be missing
SphereKeys == {K(PathA, <<"0">>), K(<<"b">>, <<"0">>)}
Spotlight == [kind |-> "Spot", position |-> 3]
AppCamera == [eye |-> 5, aspect |-> Ratio(16, 9)]

\* WindowEvent::RedrawRequested
App_redraw_requested ==
    /\ CanCall(MaxEvents)
    /\ IF ~app.renderer
       THEN AppEvent("redraw_requested", [app EXCEPT !.ignored = @ + 1], "Ready")
       ELSE \E key \in SphereKeys :
              IF ~get_mesh(asset, key).ok
              THEN /\ asset' = get_mesh(asset, key).am
                   /\ ncalls' = ncalls + 1
                   /\ prev' = last
                   /\ last' = [op |-> "get_mesh", arg |-> [key |-> key],
                               ret |-> None, ok |-> FALSE]
                   /\ pc' = "Panicked"
                   /\ UNCHANGED <<input, renderVars, app>>
              ELSE \E acq \in AcquireOutcomes :
                     /\ asset' = get_mesh(asset, key).am
                     /\ RenderCall(get_mesh(asset, key).am, <<Spotlight>>, AppCamera,
                                   <<get_mesh(asset, key).ret>>, acq)
                     /\ UNCHANGED app

\* WindowEvent::Resized(size)
AppSizes == {<<0, 1>>, <<2, 1>>}
App_resized ==
    /\ CanCall(MaxEvents)
    /\ IF ~app.renderer
       THEN AppEvent("resized", [app EXCEPT !.ignored = @ + 1], "Ready")
       ELSE \E size \in AppSizes :
              ResizeCall(size[1], size[2]) /\ UNCHANGED <<asset, app>>

\* WindowEvent::CloseRequested: event_loop.exit()
App_close_requested ==
    /\ CanCall(MaxEvents)
    /\ AppEvent("close_requested", app, "Exited")

NextApp ==
    \/ App_resumed
    \/ App_renderer_task
    \/ App_redraw_requested
    \/ App_resized
    \/ App_close_requested

SpecApp == InitApp /\ [][NextApp]_vars

(***************************************************************************)
(* Properties                                                              *)
(***************************************************************************)
RECURSIVE SumTo(_, _)
\* f[1] + ... + f[n]
SumTo(f, n) == IF n = 0 THEN 0 ELSE f[n] + SumTo(f, n - 1)

\* a step of the state machine that performs a call
IsCall == ncalls' = ncalls + 1

GetOps == {"get_mesh", "get_material", "get_texture", "get_sampler"}

\* the cache a lookup consults, and the key it consults it with
CacheOf(am, op) ==
    IF op = "get_mesh" THEN am.meshes_by_name
    ELSE IF op = "get_material" THEN am.mat_by_name
    ELSE IF op = "get_texture" THEN am.tex_by_key
    ELSE am.sampler_by_name
CacheKey(call) ==
    IF call.op = "get_texture" THEN [key |-> call.arg.key, format |-> call.arg.format]
    ELSE call.arg.key

MatSlots(am) == {am.mat_by_name[k] : k \in DOMAIN am.mat_by_name}

\* C2: material slots are handed out once.  Two distinct material keys
\* never share a slot; the free list is always the list built at
\* construction (MAX_MAT - 1 down to 1) cut to its first elements, so it
\* holds no slot twice and only slots above those handed out; no slot in
\* use is in it; and no step makes it longer, so a popped slot never
\* comes back.
C2_NoSlotReuse ==
    [][ LET free == asset'.mat_free
        IN /\ \A k1 \in DOMAIN asset'.mat_by_name, k2 \in DOMAIN asset'.mat_by_name :
                k1 # k2 => asset'.mat_by_name[k1] # asset'.mat_by_name[k2]
           /\ free = SubSeq(InitMatFree, 1, Len(free))
           /\ asset.mat_free = SubSeq(InitMatFree, 1, Len(asset.mat_free))
           /\ \A slot \in MatSlots(asset') : slot >= 1 /\ slot < MAX_MAT - Len(free)
           /\ Len(free) <= Len(asset.mat_free) ]_vars

C2_Witness ==
    /\ Cardinality(DOMAIN asset.mat_by_name) = 2
    /\ MatSlots(asset) = {1, 2}
    /\ Len(asset.mat_free) = MAX_MAT - 3
    /\ last.op = "get_material"

\* C3: concatenation invariant.  In every mesh, with the primitives it was
\* last built or rewritten from: there is one range per primitive, each
\* range's first_index is the sum of the index counts of the ranges before
\* it and its base_vertex the sum of the vertex counts of the primitives
\* before it (so the ranges are disjoint and ascending), and the vertex
\* counts and index counts add up to the mesh's vertex_count and
\* index_count.
MeshConcatenated(m, prims) ==
    LET n == Len(m.primitives)
        vc == [i \in 1..Len(prims) |-> vec_len(prims[i].vertex)]
        ic == [i \in 1..n |-> m.primitives[i].index_count]
    IN /\ n = Len(prims)
       /\ \A i \in 1..n :
            /\ m.primitives[i].first_index = SumTo(ic, i - 1)
            /\ m.primitives[i].base_vertex = SumTo(vc, i - 1)
            /\ ic[i] = 3 * Len(prims[i].index)
       /\ \A i \in 1..n, j \in 1..n :
            i < j => /\ m.primitives[i].first_index + ic[i] <= m.primitives[j].first_index
                     /\ m.primitives[i].base_vertex + vc[i] <= m.primitives[j].base_vertex
       /\ SumTo(vc, n) = m.vertex_count
       /\ SumTo(ic, n) = m.index_count

C3_Concatenation ==
    \A id \in 1..Len(asset.meshes) :
        MeshConcatenated(asset.meshes[id], asset.src_prims[id])

C3_Witness ==
    /\ last.op = "rewrite_mesh"
    /\ last.ok
    /\ prev.op = "set_mat"
    /\ prev.ok
    /\ Len(asset.meshes[last.arg.mesh_id].primitives) = 2
    /\ asset.meshes[last.arg.mesh_id].primitives[2].base_vertex = 3
    /\ asset.meshes[last.arg.mesh_id].primitives[2].first_index = 3

\* C4: index width.  A mesh built by set_mesh that has at least one index
\* has the 16-bit format when its total vertex count is <= 65536 and every
\* rebased index (the primitive's base vertex plus the local index) is
\* < 65536, and the 32-bit format otherwise.
RebasedIndices(prims) ==
    LET vc == [i \in 1..Len(prims) |-> vec_len(prims[i].vertex)]
    IN UNION { { SumTo(vc, i - 1) + prims[i].index[t][c] :
                   t \in 1..Len(prims[i].index), c \in 1..3 } : i \in 1..Len(prims) }

TotalVertices(prims) ==
    SumTo([i \in 1..Len(prims) |-> vec_len(prims[i].vertex)], Len(prims))
TotalIndices(prims) ==
    SumTo([i \in 1..Len(prims) |-> 3 * Len(prims[i].index)], Len(prims))

C4_IndexWidth ==
    \A id \in 1..Len(asset.meshes) :
        LET prims == asset.src_prims[id]
        IN TotalIndices(prims) > 0 =>
             asset.meshes[id].index_format =
                IF /\ TotalVertices(prims) <= U16_LIMIT
                   /\ \A x \in RebasedIndices(prims) : x < U16_LIMIT
                THEN Some(U16) ELSE Some(U32)

C4_Witness ==
    /\ Len(asset.meshes) = 1
    /\ asset.meshes[1].vertex_count = U16_LIMIT
    /\ asset.meshes[1].index_format = Some(U16)
    /\ U16_LIMIT - 1 \in RebasedIndices(asset.src_prims[1])

\* C5: rewrite_mesh.  On a live handle, a primitive set whose total vertex
\* count and total index count equal the mesh's succeeds: handle, cache,
\* buffer objects, vertex_count, index_count and index_format stay, the
\* vertex buffer holds the concatenated vertices, no other mesh changes and
\* nothing is allocated.  A set whose vertex or index total differs panics.
RECURSIVE ConcatVertices(_, _)
ConcatVertices(prims, n) ==
    IF n = 0 THEN <<>> ELSE vec_extend(ConcatVertices(prims, n - 1), prims[n].vertex)

C5_RewriteInPlace ==
    [][ (/\ IsCall
         /\ last'.op = "rewrite_mesh"
         /\ MeshLive(asset, last'.arg.mesh_id))
        => LET id == last'.arg.mesh_id
               prims == last'.arg.primitives
               old == asset.meshes[id]
               new == asset'.meshes[id]
           IN IF /\ TotalVertices(prims) = old.vertex_count
                 /\ TotalIndices(prims) = old.index_count
              THEN /\ last'.ok
                   /\ pc' = "Ready"
                   /\ asset'.meshes_by_name = asset.meshes_by_name
                   /\ Len(asset'.meshes) = Len(asset.meshes)
                   /\ \A o \in 1..Len(asset.meshes) :
                        o # id => asset'.meshes[o] = asset.meshes[o]
                   /\ asset'.device = asset.device
                   /\ new.vertex_buf.id = old.vertex_buf.id
                   /\ IsSome(new.index_buf) = IsSome(old.index_buf)
                   /\ IsSome(old.index_buf) =>
                        Unwrap(new.index_buf).id = Unwrap(old.index_buf).id
                   /\ new.vertex_count = old.vertex_count
                   /\ new.index_count = old.index_count
                   /\ new.index_format = old.index_format
                   /\ new.vertex_buf.data = ConcatVertices(prims, Len(prims))
                   /\ IsSome(old.index_buf) =>
                        Len(Unwrap(new.index_buf).data) = old.index_count
              ELSE /\ ~last'.ok
                   /\ pc' = "Panicked"
                   /\ asset' = asset ]_vars

C5_Witness ==
    /\ last.op = "rewrite_mesh"
    /\ last.ok
    /\ prev.op = "get_mesh"
    /\ last.arg.primitives = <<PrimB, PrimA>>
    /\ asset.meshes[last.arg.mesh_id].vertex_buf.data = vec_extend(PrimB.vertex, PrimA.vertex)
    /\ asset.meshes[last.arg.mesh_id].index_format = Some(U16)
    /\ asset.meshes[last.arg.mesh_id].primitives[1].material = 0

(***************************************************************************)
(* Frame acquisition (render.rs)                                           *)
(***************************************************************************)
CountOp(trace, op) == Cardinality({i \in 1..Len(trace) : trace[i].op = op})

IsRender == IsCall /\ last'.op = "render"

\* a frame in which nothing was drawn, submitted or presented
Dropped(trace) ==
    /\ CountOp(trace, "begin_render_pass") = 0
    /\ CountOp(trace, "draw_indexed") = 0
    /\ CountOp(trace, "submit") = 0
    /\ CountOp(trace, "present") = 0

\* C6: acquisition.  Every render call asks for the current texture exactly
\* once.  On Lost or Outdated the surface is configured once more, with the
\* configuration in force, and the frame is dropped; on OutOfMemory the
\* process exits; on Timeout or any other error the frame is dropped and
\* nothing is configured.  A dropped frame opens no render pass, draws,
\* submits and presents nothing, and the call does not panic.
C6_Acquisition ==
    [][ IsRender =>
        LET acq == last'.arg.acq
        IN /\ CountOp(frame', "get_current_texture") = 1
           /\ acq \in {"Lost", "Outdated"} =>
                /\ CountOp(frame', "configure") = 1
                /\ surface'.configures = surface.configures + 1
                /\ surface'.width = config.width /\ surface'.height = config.height
                /\ Dropped(frame') /\ pc' = "Ready"
           /\ acq = "OutOfMemory" =>
                /\ pc' = "Exited" /\ CountOp(frame', "exit") = 1
                /\ Dropped(frame') /\ surface' = surface
           /\ acq \in {"Timeout", "Other"} =>
                /\ Dropped(frame') /\ pc' = "Ready"
                /\ CountOp(frame', "configure") = 0 /\ surface' = surface
           /\ acq = "Ok" =>
                /\ pc' # "Exited" /\ surface' = surface
                /\ CountOp(frame', "begin_render_pass") = 1 ]_vars

C6_Witness ==
    /\ last.op = "render" /\ last.arg.acq = "Lost"
    /\ prev.op = "resize" /\ prev.arg = [width |-> 2, height |-> 1]
    /\ surface = [width |-> 2, height |-> 1, configures |-> 3]
    /\ pc = "Ready" /\ Dropped(frame)

RecoverableErrors == {"Lost", "Outdated", "Timeout", "Other"}

\* the draw calls a command list of live meshes issues: one per primitive
\* of every mesh that has an index buffer
ExpectedDraws(am, action) ==
    SumTo([i \in 1..Len(action) |->
              IF IsSome(am.meshes[action[i]].index_buf)
              THEN Len(am.meshes[action[i]].primitives) ELSE 0], Len(action))

\* C7: containment.  A render call whose acquisition fails with an error
\* other than OutOfMemory returns normally with the renderer Ready and the
\* asset manager (caches, meshes, material slots), the depth texture, the
\* configuration and the surface size as they were.  The render call that
\* follows it, when its acquisition succeeds and its commands name live
\* meshes, opens one pass, issues every draw call of its commands, and
\* submits and presents once.
C7_Containment ==
    [][ /\ (IsRender /\ last'.arg.acq \in RecoverableErrors) =>
              /\ pc' = "Ready" /\ last'.ok /\ last'.ret = None
              /\ asset' = asset /\ depth_tex' = depth_tex /\ config' = config
              /\ surface'.width = surface.width /\ surface'.height = surface.height
        /\ ( /\ last.op = "render" /\ last.arg.acq \in RecoverableErrors
             /\ IsRender /\ last'.arg.acq = "Ok"
             /\ \A i \in 1..Len(last'.arg.action) : MeshLive(asset, last'.arg.action[i]) ) =>
              /\ pc' = "Ready" /\ last'.ok
              /\ CountOp(frame', "begin_render_pass") = 1
              /\ CountOp(frame', "draw_indexed") = ExpectedDraws(asset, last'.arg.action)
              /\ CountOp(frame', "submit") = 1 /\ CountOp(frame', "present") = 1
              /\ frame'[Len(frame')].op = "present"
              /\ camera_buffer'.data = camera_uniform(last'.arg.cam) ]_vars

C7_Witness ==
    /\ prev.op = "render" /\ prev.arg.acq = "Timeout"
    /\ last.op = "render" /\ last.arg.acq = "Ok" /\ last.arg.action = <<2, 1>>
    /\ CountOp(frame, "draw_indexed") = 2
    /\ CountOp(frame, "present") = 1
    /\ pc = "Ready"

LightWrites(trace) == {i \in 1..Len(trace) :
                          trace[i].op = "write_buffer" /\ trace[i].buffer = "light_ssbo"}
ParamWrites(trace) == {i \in 1..Len(trace) :
                          trace[i].op = "write_buffer" /\ trace[i].buffer = "light_params"}

\* C8: light truncation.  After a render call that reached the light
\* upload, the count record written and kept is min(len, MAX_LIGHTS), the
\* lights written to the light buffer are that many (none is written for an
\* empty list), and they are the first min(len, MAX_LIGHTS) lights of the
\* list, converted, in order.
C8_LightTruncation ==
    (last.op = "render" /\ last.arg.acq = "Ok") =>
        LET lights == last.arg.lights
            n == Min2(Len(lights), MAX_LIGHTS)
        IN /\ light_params.count = n
           /\ Cardinality(ParamWrites(frame)) = 1
           /\ \A i \in ParamWrites(frame) : frame[i].data.count = n
           /\ Cardinality(LightWrites(frame)) = IF n > 0 THEN 1 ELSE 0
           /\ \A i \in LightWrites(frame) :
                 /\ Len(frame[i].data) = n
                 /\ \A j \in 1..n : frame[i].data[j] = light_uniform(lights[j])
           /\ \A j \in 1..n : light_ssbo.data[j] = light_uniform(lights[j])

C8_Witness ==
    /\ last.op = "render" /\ last.arg.acq = "Ok"
    /\ Len(last.arg.lights) = MAX_LIGHTS + 1
    /\ light_params.count = MAX_LIGHTS
    /\ light_ssbo.data[MAX_LIGHTS] = light_uniform(last.arg.lights[MAX_LIGHTS])

\* C9: resize with a zero width or a zero height changes nothing: the
\* configuration, the surface (nothing is configured), the depth texture,
\* the camera with its aspect, and the camera buffer (nothing is written).
C9_ResizeZero ==
    [][ (IsCall /\ last'.op = "resize"
         /\ (last'.arg.width = 0 \/ last'.arg.height = 0)) =>
            /\ UNCHANGED <<config, surface, depth_tex, camera, camera_buffer>>
            /\ UNCHANGED <<asset, light_ssbo, light_params, pc>> ]_vars

C9_Witness ==
    /\ prev.op = "resize" /\ prev.arg = [width |-> 2, height |-> 1]
    /\ last.op = "resize" /\ last.arg = [width |-> 0, height |-> 2]
    /\ config = [width |-> 2, height |-> 1]
    /\ depth_tex.width = 2 /\ depth_tex.height = 1
    /\ camera.aspect = Ratio(2, 1)

(***************************************************************************)
(* Texture cache (asset_manager/texture.rs)                                *)
(***************************************************************************)
TexEntry(key, format) == [key |-> key, format |-> format]
TexCached(am, key, format) == TexEntry(key, format) \in DOMAIN am.tex_by_key
OtherFormat(format) == IF format = SRGB THEN UNORM ELSE SRGB

\* C10: the texture cache is keyed by (key, format).  A successful
\* get_texture returns a texture of the requested key and format; when the
\* key was cached under the other format only, the call creates a new
\* texture with a handle of its own.  The two entries of a key never share
\* a handle, and no step removes an entry, moves it to another handle, or
\* changes the texture it names.
C10_TextureKeyedByFormat ==
    [][ /\ (IsCall /\ last'.op = "get_texture" /\ last'.ok) =>
              LET key == last'.arg.key
                  format == last'.arg.format
                  id == last'.ret
              IN /\ TexCached(asset', key, format)
                 /\ asset'.tex_by_key[TexEntry(key, format)] = id
                 /\ asset'.textures[id].tex.format = format
                 /\ asset'.textures[id].tex.label = key
                 /\ (TexCached(asset, key, OtherFormat(format)) /\ ~TexCached(asset, key, format)) =>
                        /\ id # asset.tex_by_key[TexEntry(key, OtherFormat(format))]
                        /\ id \notin 1..Len(asset.textures)
                        /\ asset'.device.textures = asset.device.textures + 1
        /\ \A key \in TexKeys :
              (TexCached(asset', key, SRGB) /\ TexCached(asset', key, UNORM)) =>
                  asset'.tex_by_key[TexEntry(key, SRGB)] # asset'.tex_by_key[TexEntry(key, UNORM)]
        /\ \A e \in DOMAIN asset.tex_by_key :
              /\ e \in DOMAIN asset'.tex_by_key
              /\ asset'.tex_by_key[e] = asset.tex_by_key[e]
              /\ asset'.textures[asset.tex_by_key[e]] = asset.textures[asset.tex_by_key[e]] ]_vars

C10_Witness ==
    LET key == K(PathA, <<"0">>)
    IN /\ prev.op = "get_texture" /\ prev.arg = [key |-> key, format |-> SRGB]
       /\ last.op = "get_texture" /\ last.arg = [key |-> key, format |-> UNORM]
       /\ last.ok /\ prev.ok /\ last.ret # prev.ret
       /\ asset.tex_by_key[TexEntry(key, SRGB)] = prev.ret
       /\ asset.tex_by_key[TexEntry(key, UNORM)] = last.ret
       /\ asset.textures[prev.ret].tex.format = SRGB
       /\ asset.textures[last.ret].tex.format = UNORM

(***************************************************************************)
(* Material slots (asset_manager.rs, asset_manager/material.rs)            *)
(***************************************************************************)
\* the free list as constructed offers no slot 0
InitFreeWithoutZero == \A i \in 1..Len(InitMatFree) : InitMatFree[i] # 0

\* C11: slot 0 is the default material.  In every reachable state the
\* material buffer holds the default uniform at slot 0, as written at
\* construction; slot 0 is not in the free list (the list is a prefix of
\* the constructed one, which does not offer it); no material key is mapped
\* to slot 0 and no get_material call has returned it.
C11_SlotZeroReserved ==
    /\ 0 \in DOMAIN asset.mat_buffer
    /\ asset.mat_buffer[0] = default_uniform
    /\ asset.mat_free = SubSeq(InitMatFree, 1, Len(asset.mat_free))
    /\ InitFreeWithoutZero
    /\ \A k \in DOMAIN asset.mat_by_name : asset.mat_by_name[k] # 0
    /\ (last.op = "get_material" /\ last.ok) => last.ret # 0
    /\ 0 \notin DOMAIN asset.tex_by_mat

C11_Witness ==
    /\ last.op = "get_material" /\ last.ok /\ last.ret = 2
    /\ asset.mat_buffer[0] = default_uniform
    /\ asset.mat_buffer[1] # default_uniform
    /\ asset.mat_buffer[2] # default_uniform
    /\ DOMAIN asset.mat_buffer = {0, 1, 2}

\* the number of material keys created so far
MaterialsCreated(am) == Cardinality(DOMAIN am.mat_by_name)

\* key names a material of its file
NamesMaterial(key) == load_material(split_key(key).path, split_key(key).selector).ok

\* C12: material capacity.  The materials created and the free slots always
\* add up to MAX_MAT - 1, so at most MAX_MAT - 1 distinct keys are ever
\* created and, once the free list is empty, exactly that many have been.
\* get_material of a key not yet created succeeds while a slot is free and
\* creates one more; with the free list empty it panics and creates
\* nothing.  get_material of a key already created returns its handle and
\* changes nothing, also when the free list is empty.
C12_Capacity ==
    [][ /\ MaterialsCreated(asset') + Len(asset'.mat_free) = MAX_MAT - 1
        /\ (IsCall /\ last'.op = "get_material") =>
              LET key == last'.arg.key
              IN IF key \in DOMAIN asset.mat_by_name
                 THEN /\ last'.ok /\ pc' = "Ready"
                      /\ last'.ret = asset.mat_by_name[key]
                      /\ asset' = asset
                 ELSE IF Len(asset.mat_free) = 0
                      THEN /\ ~last'.ok /\ pc' = "Panicked"
                           /\ asset'.mat_by_name = asset.mat_by_name
                           /\ asset'.mat_buffer = asset.mat_buffer
                           /\ MaterialsCreated(asset') = MAX_MAT - 1
                      ELSE NamesMaterial(key) =>
                              /\ last'.ok /\ pc' = "Ready"
                              /\ key \in DOMAIN asset'.mat_by_name
                              /\ MaterialsCreated(asset') = MaterialsCreated(asset) + 1
                              /\ Len(asset'.mat_free) = Len(asset.mat_free) - 1 ]_vars

C12_Witness ==
    /\ Len(asset.mat_free) = 0
    /\ MaterialsCreated(asset) = MAX_MAT - 1
    /\ prev.op = "get_material" /\ prev.ok /\ prev.ret = MAX_MAT - 1
    /\ last.op = "get_material" /\ last.arg.key = FormatKey(PathC, 0)
    /\ last.ok /\ last.ret = 1
    /\ pc = "Ready"

\* the lookup tables of the asset manager
CacheTables(am) ==
    [meshes_by_name |-> am.meshes_by_name, meshes |-> am.meshes,
     mat_by_name |-> am.mat_by_name, tex_by_mat |-> am.tex_by_mat,
     tex_by_key |-> am.tex_by_key, textures |-> am.textures,
     sampler_by_name |-> am.sampler_by_name, samplers |-> am.samplers]

\* C13: no partial insertion.  When a lookup of a key that is not cached
\* fails, the mesh, material, texture and sampler tables are as they were
\* before the call.
C13_NoPartialInsertion ==
    [][ (/\ IsCall
         /\ last'.op \in GetOps
         /\ CacheKey(last') \notin DOMAIN CacheOf(asset, last'.op)
         /\ ~last'.ok)
        => CacheTables(asset') = CacheTables(asset) ]_vars

\* the ranges of all meshes, as pairs of mesh handle and position
RangeIds(am) ==
    UNION {{<<j, i>> : i \in 1..Len(am.meshes[j].primitives)} : j \in 1..Len(am.meshes)}

\* mesh m without its ranges
MeshHeader(m) == [m EXCEPT !.primitives = <<>>]

\* C14: set_mat succeeds exactly when the handle is a live mesh and the
\* index is below its number of ranges.  On success the addressed range has
\* the given material and its other fields as before, and every other
\* range, every mesh's other data and the rest of the asset manager are
\* unchanged; on failure no mesh is modified.
C14_SetMat ==
    [][ (IsCall /\ last'.op = "set_mat") =>
        LET a == last'.arg
            live == a.mesh_id \in 1..Len(asset.meshes)
            valid == live /\ a.idx < Len(asset.meshes[a.mesh_id].primitives)
        IN /\ last'.ok <=> valid
           /\ ~valid => asset' = asset
           /\ valid =>
                /\ [asset' EXCEPT !.meshes = <<>>] = [asset EXCEPT !.meshes = <<>>]
                /\ Len(asset'.meshes) = Len(asset.meshes)
                /\ \A j \in 1..Len(asset.meshes) :
                       MeshHeader(asset'.meshes[j]) = MeshHeader(asset.meshes[j])
                /\ RangeIds(asset') = RangeIds(asset)
                /\ \A p \in RangeIds(asset) :
                       LET now == asset'.meshes[p[1]].primitives[p[2]]
                           was == asset.meshes[p[1]].primitives[p[2]]
                       IN IF p = <<a.mesh_id, a.idx + 1>>
                          THEN /\ now.material = a.mat_id
                               /\ [now EXCEPT !.material = was.material] = was
                          ELSE now = was ]_vars

\* a set_mat call has changed the material of the second of two ranges and
\* left the first range with another material
C14_Witness ==
    /\ last.op = "set_mat" /\ last.ok /\ last.arg.idx = 1
    /\ Len(asset.meshes[last.arg.mesh_id].primitives) = 2
    /\ asset.meshes[last.arg.mesh_id].primitives[2].material = last.arg.mat_id
    /\ asset.meshes[last.arg.mesh_id].primitives[1].material # last.arg.mat_id

\* a set_mat call has failed on an index that is not below the number of ranges
C14_WitnessFailure ==
    /\ last.op = "set_mat" /\ ~last.ok
    /\ last.arg.mesh_id \in 1..Len(asset.meshes)
    /\ last.arg.idx >= Len(asset.meshes[last.arg.mesh_id].primitives)

\* the four texture references of a material and the format each is read in
TextureSlots ==
    {<<"base_color_texture", "base_color", SRGB>>,
     <<"metallic_roughness_texture", "metallic_roughness", UNORM>>,
     <<"normal_texture", "normal", UNORM>>,
     <<"emissive_texture", "emissive", SRGB>>}

\* C15: a get_material call on a key that is not cached, whose material the
\* importer finds and for which a slot is free, succeeds whichever of its four
\* texture references are present: the key is cached under the slot
\* returned, and each reference that is present is in the texture cache
\* under path#textureIndex and is the slot's texture of that kind.
C15_OptionalTextures ==
    [][ (/\ IsCall
         /\ last'.op = "get_material"
         /\ last'.arg.key \notin DOMAIN asset.mat_by_name)
        => LET key == last'.arg.key
               path == split_key(key).path
               m == load_material(path, split_key(key).selector)
           IN (m.ok /\ Len(asset.mat_free) > 0) =>
                /\ last'.ok
                /\ key \in DOMAIN asset'.mat_by_name
                /\ asset'.mat_by_name[key] = last'.ret
                /\ \A t \in TextureSlots :
                     IsSome(m.val[t[1]]) =>
                       LET tk == TextureKey(FormatKey(path, Unwrap(m.val[t[1]])), t[3])
                       IN /\ tk \in DOMAIN asset'.tex_by_key
                          /\ asset'.tex_by_mat[last'.ret][t[2]] = asset'.tex_by_key[tk] ]_vars

\* the primitives of the source mesh a key names
SourcePrimitives(key) ==
    select_mesh(Files[split_key(key).path], split_key(key).selector).val.primitives

\* the number of triangles of a source primitive: of its index list, or of
\* its vertices taken in order when it has none
TriangleCount(gltf_prim) ==
    IF IsSome(gltf_prim.indices) THEN Len(Unwrap(gltf_prim.indices)) \div 3
    ELSE vec_len(gltf_prim.positions) \div 3

\* C16: a get_mesh call that builds a mesh from n source primitives yields
\* exactly n ranges in source order: range i starts at the number of
\* vertices of the primitives before it and has 3 indices per triangle of
\* primitive i, and the mesh has the vertices of all primitives.  Two
\* primitives of 4 and 3 vertices give vertex_count 7 and bases 0 and 4.
C16_MeshBuild ==
    [][ (/\ IsCall
         /\ last'.op = "get_mesh"
         /\ last'.ok
         /\ last'.arg.key \notin DOMAIN asset.meshes_by_name)
        => LET src == SourcePrimitives(last'.arg.key)
               n == Len(src)
               vc == [i \in 1..n |-> vec_len(src[i].positions)]
               m == asset'.meshes[last'.ret]
           IN /\ Len(m.primitives) = n
              /\ m.vertex_count = SumTo(vc, n)
              /\ \A i \in 1..n :
                   /\ m.primitives[i].base_vertex = SumTo(vc, i - 1)
                   /\ m.primitives[i].index_count = 3 * TriangleCount(src[i])
              /\ vc = <<4, 3>> =>
                   /\ m.vertex_count = 7
                   /\ m.primitives[1].base_vertex = 0
                   /\ m.primitives[2].base_vertex = 4 ]_vars

\* get_mesh has built a mesh of 7 vertices from primitives of 4 and 3
\* vertices, of two triangles and of one
C16_Witness ==
    /\ last.op = "get_mesh" /\ last.ok
    /\ prev.op # "get_mesh"
    /\ LET m == asset.meshes[last.ret]
       IN /\ m.vertex_count = 7
          /\ Len(m.primitives) = 2
          /\ m.primitives[1].base_vertex = 0 /\ m.primitives[1].index_count = 6
          /\ m.primitives[2].base_vertex = 4 /\ m.primitives[2].index_count = 3

\* the k-th coordinates of a set of vertices
Coordinates(own, k) == {v.position[k] : v \in own}

\* C17: the bounding box of every range whose primitive has a vertex is the
\* component-wise minimum and maximum of that primitive's own vertex
\* positions; vertices (0,0,0), (1,2,3), (-1,0,5) give (-1,0,0) and (1,2,5).
C17_Aabb ==
    \A id \in 1..Len(asset.meshes) :
        \A i \in 1..Len(asset.meshes[id].primitives) :
            LET own == vec_elems(asset.src_prims[id][i].vertex)
                r == asset.meshes[id].primitives[i]
            IN own # {} =>
                 /\ \A k \in 1..3 :
                      /\ r.aabb_min[k] \in Coordinates(own, k)
                      /\ r.aabb_max[k] \in Coordinates(own, k)
                      /\ \A c \in Coordinates(own, k) :
                            r.aabb_min[k] <= c /\ c <= r.aabb_max[k]
                 /\ own = {V(0, 0, 0), V(1, 2, 3), V(-1, 0, 5)} =>
                      r.aabb_min = <<-1, 0, 0>> /\ r.aabb_max = <<1, 2, 5>>

\* a mesh has a range of the three vertices above with its box, next to a
\* range of other vertices with another box
C17_Witness ==
    \E id \in 1..Len(asset.meshes) :
        /\ Len(asset.meshes[id].primitives) = 2
        /\ vec_elems(asset.src_prims[id][1].vertex) = {V(0, 0, 0), V(1, 2, 3), V(-1, 0, 5)}
        /\ asset.meshes[id].primitives[1].aabb_min = <<-1, 0, 0>>
        /\ asset.meshes[id].primitives[1].aabb_max = <<1, 2, 5>>
        /\ asset.meshes[id].primitives[2].aabb_min = <<2, 2, 2>>
        /\ asset.meshes[id].primitives[2].aabb_max = <<3, 4, 2>>

\* the positions of '#' in a key, the part before the first of them and
\* the part after it
Hashes(key) == {i \in 1..Len(key) : key[i] = "#"}
PathPart(key) ==
    IF Hashes(key) = {} THEN key ELSE SubSeq(key, 1, SetMin(Hashes(key)) - 1)
SelectorPart(key) == SubSeq(key, SetMin(Hashes(key)) + 1, Len(key))

\* the positions (from 1) of the entity of a list that a key selects: the
\* first entity without a selector, the entity at the zero-based index when
\* the selector parses as a number, else the first entity of that name; no
\* position when there is no such entity
Selected(list, key) ==
    IF Hashes(key) = {} THEN {i \in DOMAIN list : i = 1}
    ELSE IF IsSome(ParseUsize(SelectorPart(key)))
         THEN {i \in DOMAIN list : i - 1 = Unwrap(ParseUsize(SelectorPart(key)))}
         ELSE {i \in DOMAIN list :
                 /\ list[i].name = Some(SelectorPart(key))
                 /\ \A j \in 1..(i - 1) : list[j].name # Some(SelectorPart(key))}

\* the entities of a file, none when the file cannot be imported
EntitiesOf(key, kind) ==
    IF PathPart(key) \in DOMAIN Files THEN Files[PathPart(key)][kind] ELSE <<>>

\* C18: a get_mesh or get_material call on a key that is not cached uses
\* the entity its key selects: the call fails, with nothing changed in the
\* tables, when the key selects nothing (index out of range, no entity of
\* that name, no entity in the file), and a call that succeeds has built the
\* mesh from the selected mesh's primitives, or written the selected
\* material's uniform to the slot it returns.
C18_Selector ==
    [][ (/\ IsCall
         /\ last'.op \in {"get_mesh", "get_material"}
         /\ last'.arg.key \notin DOMAIN CacheOf(asset, last'.op))
        => LET key == last'.arg.key
               list == EntitiesOf(key, IF last'.op = "get_mesh" THEN "meshes" ELSE "materials")
               pos == Selected(list, key)
           IN /\ pos = {} => (~last'.ok /\ CacheTables(asset') = CacheTables(asset))
              /\ last'.ok =>
                   /\ Cardinality(pos) = 1
                   /\ \A p \in pos :
                        IF last'.op = "get_mesh"
                        THEN asset'.src_prims[last'.ret] =
                               [i \in 1..Len(list[p].primitives) |->
                                   import_primitive(list[p].primitives[i])]
                        ELSE asset'.mat_buffer[last'.ret].factor = list[p].factor ]_vars

\* get_mesh has built the second mesh of the file from a numeric selector 1
C18_Witness ==
    /\ last.op = "get_mesh" /\ last.ok /\ prev.op # "get_mesh"
    /\ last.arg.key = K(PathA, <<"1">>)
    /\ asset.src_prims[last.ret] = <<import_primitive(GltfPrimC)>>

\* get_mesh has built a mesh selected by a name that contains '#'
C18_WitnessName ==
    /\ last.op = "get_mesh" /\ last.ok
    /\ last.arg.key = K(PathA, NameHash)

\* get_mesh has built the first mesh of the file from a key without selector
C18_WitnessFirst ==
    /\ last.op = "get_mesh" /\ last.ok /\ prev.op = "none"
    /\ last.arg.key = PathA
    /\ Len(asset.src_prims[last.ret]) = 2

\* lookups have failed on an index out of range, on a name no entity has
\* and on a file without meshes
C18_WitnessOutOfRange == ~last.ok /\ last.op = "get_mesh" /\ last.arg.key = K(PathA, <<"7">>)
C18_WitnessNoName == ~last.ok /\ last.op = "get_material" /\ last.arg.key = K(PathA, <<"X">>)
C18_WitnessNoMesh == ~last.ok /\ last.op = "get_mesh" /\ last.arg.key = PathC

\* the positions of the events of a trace on a buffer or of an operation
WritesTo(trace, buffer) ==
    {i \in 1..Len(trace) : trace[i].op = "write_buffer" /\ trace[i].buffer = buffer}
EventsOf(trace, op) == {i \in 1..Len(trace) : trace[i].op = op}

\* C19: every render call, whatever the outcome of its acquisition, stores
\* the camera passed in and writes its uniform (view-projection matrix and
\* eye position) to the camera buffer, as the first event of the call and
\* once.
C19_CameraFirst ==
    [][ IsRender =>
        LET cam == last'.arg.cam
        IN /\ camera' = cam
           /\ camera_buffer'.writes = camera_buffer.writes + 1
           /\ camera_buffer'.data.camera_pos = cam.eye
           /\ camera_buffer'.data = camera_uniform(cam)
           /\ WritesTo(frame', "camera_buffer") = {1}
           /\ frame'[1].data = camera_uniform(cam)
           /\ \A i \in EventsOf(frame', "get_current_texture") : i > 1 ]_vars

\* a render call whose frame was dropped on a timeout has stored and
\* uploaded a camera other than the one of the call before
C19_Witness ==
    /\ last.op = "render" /\ last.arg.acq = "Timeout"
    /\ prev.op = "render" /\ prev.arg.cam # last.arg.cam
    /\ Dropped(frame)
    /\ camera = last.arg.cam
    /\ camera_buffer.data = camera_uniform(last.arg.cam)

\* the writes of a trace to the light array and to the light count record
LightStateWrites(trace) == WritesTo(trace, "light_ssbo") \cup WritesTo(trace, "light_params")

\* C20, as claimed: every render call writes the light count record, and its
\* writes of the light state come before the acquisition of the swapchain
\* image, so that they happen whatever the acquisition's outcome.
C20_LightsBeforeAcquire ==
    [][ IsRender =>
        /\ WritesTo(frame', "light_params") # {}
        /\ \A i \in LightStateWrites(frame') :
             \A j \in EventsOf(frame', "get_current_texture") : i < j ]_vars

\* C20, amended: the light state is written after the swapchain image has
\* been acquired and before the render pass begins.  A render call whose
\* acquisition succeeds writes the count record once; one whose acquisition
\* fails writes no light state and leaves both light buffers as they were.
C20_LightsAfterAcquire ==
    [][ IsRender =>
        IF last'.arg.acq = "Ok"
        THEN /\ Cardinality(WritesTo(frame', "light_params")) = 1
             /\ \A i \in LightStateWrites(frame') :
                  /\ \A j \in EventsOf(frame', "get_current_texture") : j < i
                  /\ \A j \in EventsOf(frame', "begin_render_pass") : i < j
        ELSE /\ LightStateWrites(frame') = {}
             /\ light_ssbo' = light_ssbo
             /\ light_params' = light_params ]_vars

\* a render call with one light was dropped after a frame with another
\* number of lights: the count record still holds the earlier count
C20_Witness ==
    /\ last.op = "render" /\ last.arg.acq # "Ok"
    /\ prev.op = "render" /\ prev.arg.acq = "Ok"
    /\ Len(last.arg.lights) = 1
    /\ light_params.count = Min2(Len(prev.arg.lights), MAX_LIGHTS)
    /\ light_params.count # 1
    /\ LightStateWrites(frame) = {}

\* the draws a command list asks for, in order: for every command and every
\* range of its mesh (when the mesh has an index buffer), the byte offset
\* of the range's material slot and the index range and vertex base drawn
RangeDraws(mesh) ==
    IF IsSome(mesh.index_buf)
    THEN [i \in 1..Len(mesh.primitives) |->
            [offset |-> mesh.primitives[i].material * MAT_ID_SIZE,
             first |-> mesh.primitives[i].first_index,
             end |-> mesh.primitives[i].first_index + mesh.primitives[i].index_count,
             base_vertex |-> mesh.primitives[i].base_vertex]]
    ELSE <<>>
RECURSIVE CommandDraws(_, _, _)
CommandDraws(am, action, n) ==
    IF n = 0 THEN <<>>
    ELSE CommandDraws(am, action, n - 1) \o RangeDraws(am.meshes[action[n]])

\* the draws of a trace, each with the offset of the event before it
DrawPositions(trace) == EventsOf(trace, "draw_indexed")
RECURSIVE TraceDraws(_, _)
TraceDraws(trace, n) ==
    IF n = 0 THEN <<>>
    ELSE IF trace[n].op = "draw_indexed"
         THEN Append(TraceDraws(trace, n - 1),
                     [offset |-> trace[n - 1].offset, first |-> trace[n].first,
                      end |-> trace[n].end, base_vertex |-> trace[n].base_vertex])
         ELSE TraceDraws(trace, n - 1)

\* the bindings of a trace at a group index
BindsAt(trace, index) ==
    {i \in 1..Len(trace) : trace[i].op = "set_bind_group" /\ trace[i].index = index}

\* C21, amended: draw protocol.  In a render call that reaches its pass,
\* groups 0, 1 and 2 (camera, lights, materials) are each bound exactly
\* once, inside the pass and before any draw; every indexed draw is
\* immediately preceded by a binding of group 3, and group 3 is bound for
\* nothing else; and when all commands name live meshes the draws are, in
\* order, those of the ranges of the commands' meshes that have an index
\* buffer, each at byte offset material slot * size_of(MatId).  A command
\* whose mesh has no index buffer draws nothing.
C21_DrawProtocol ==
    [][ (IsRender /\ last'.arg.acq = "Ok") =>
        /\ Cardinality(EventsOf(frame', "begin_render_pass")) = 1
        /\ \A g \in 0..2 :
             /\ Cardinality(BindsAt(frame', g)) = 1
             /\ \A b \in BindsAt(frame', g) :
                  /\ \A i \in EventsOf(frame', "begin_render_pass") : i < b
                  /\ \A i \in DrawPositions(frame') \cup BindsAt(frame', 3) : b < i
        /\ \A i \in DrawPositions(frame') : (i - 1) \in BindsAt(frame', 3)
        /\ \A b \in BindsAt(frame', 3) : (b + 1) \in DrawPositions(frame')
        /\ last'.ok =>
             TraceDraws(frame', Len(frame')) =
                 CommandDraws(asset, last'.arg.action, Len(last'.arg.action)) ]_vars

\* the draws of a command list when every range of every mesh is drawn
EveryRangeDraws(mesh) ==
    [i \in 1..Len(mesh.primitives) |->
        [offset |-> mesh.primitives[i].material * MAT_ID_SIZE,
         first |-> mesh.primitives[i].first_index,
         end |-> mesh.primitives[i].first_index + mesh.primitives[i].index_count,
         base_vertex |-> mesh.primitives[i].base_vertex]]
RECURSIVE EveryCommandDraws(_, _, _)
EveryCommandDraws(am, action, n) ==
    IF n = 0 THEN <<>>
    ELSE EveryCommandDraws(am, action, n - 1) \o EveryRangeDraws(am.meshes[action[n]])

\* C21, as claimed: in a render call that completes its pass, every range of
\* the mesh of every command is drawn, in order, by one indexed draw that
\* follows a binding of group 3 at the range's material offset.
C21_DrawEveryRange ==
    [][ (IsRender /\ last'.arg.acq = "Ok" /\ last'.ok) =>
        TraceDraws(frame', Len(frame')) =
            EveryCommandDraws(asset, last'.arg.action, Len(last'.arg.action)) ]_vars

\* a frame of two commands has drawn nothing for the first, whose mesh has
\* no index buffer, and the two ranges of the second: the first with a
\* material slot other than 0 at that slot's byte offset, the second with
\* slot 0
C21_Witness ==
    /\ last.op = "render" /\ last.ok /\ last.arg.acq = "Ok"
    /\ last.arg.action = <<2, 1>>
    /\ ~IsSome(asset.meshes[2].index_buf)
    /\ Cardinality(DrawPositions(frame)) = 2
    /\ LET d == TraceDraws(frame, Len(frame))
       IN /\ d[1].offset = MAT_ID_SIZE * asset.meshes[1].primitives[1].material
          /\ d[1].offset > 0
          /\ d[2].offset = 0
          /\ d[2].base_vertex = 4

\* every command of a list names a live mesh
CommandsLive(am, action) == \A i \in 1..Len(action) : MeshLive(am, action[i])

\* in a trace, the one submit follows every draw and the one present
\* follows the submit
SubmitThenPresent(trace) ==
    /\ Cardinality(EventsOf(trace, "submit")) = 1
    /\ Cardinality(EventsOf(trace, "present")) = 1
    /\ \A sb \in EventsOf(trace, "submit") :
         /\ \A d \in EventsOf(trace, "draw_indexed") : d < sb
         /\ \A pr \in EventsOf(trace, "present") : sb < pr

\* C22, as claimed: a render call submits once and presents once exactly
\* when its acquisition succeeded, the submit after every draw and before
\* the present, and the renderer is Ready afterwards.
C22_SubmitIffAcquired ==
    [][ IsRender =>
        IF last'.arg.acq = "Ok"
        THEN SubmitThenPresent(frame') /\ pc' = "Ready"
        ELSE EventsOf(frame', "submit") \cup EventsOf(frame', "present") = {} ]_vars

\* C22, amended: a render call submits once and presents once exactly when
\* its acquisition succeeded and every draw command names a live mesh; the
\* submit then follows every draw and precedes the present, and the
\* renderer is Ready afterwards.  A call whose acquisition succeeded and
\* that has a command naming no live mesh panics without submitting or
\* presenting.
C22_SubmitPresent ==
    [][ IsRender =>
        IF last'.arg.acq = "Ok" /\ CommandsLive(asset, last'.arg.action)
        THEN SubmitThenPresent(frame') /\ pc' = "Ready" /\ last'.ok
        ELSE /\ EventsOf(frame', "submit") \cup EventsOf(frame', "present") = {}
             /\ last'.arg.acq = "Ok" => (pc' = "Panicked" /\ ~last'.ok) ]_vars

\* a frame of two draws was submitted and then presented: the trace ends
\* with the submit and the present, and the renderer is Ready
C22_Witness ==
    /\ last.op = "render" /\ last.ok /\ last.arg.acq = "Ok" /\ pc = "Ready"
    /\ Cardinality(EventsOf(frame, "draw_indexed")) = 2
    /\ frame[Len(frame) - 1].op = "submit"
    /\ frame[Len(frame)].op = "present"

\* a call acquired an image and panicked on a dead mesh handle
C22_WitnessDead ==
    /\ last.op = "render" /\ ~last.ok /\ last.arg.acq = "Ok" /\ pc = "Panicked"
    /\ EventsOf(frame, "begin_render_pass") # {}
    /\ EventsOf(frame, "submit") = {}

\* a function without one point of its domain
Without(f, x) == [y \in (DOMAIN f) \ {x} |-> f[y]]

\* C23: a get_material call on a key that is not cached creates no buffer
\* and leaves the pipeline, the material bind group, the material-id buffer
\* and its bind group and the meshes as they were.  When it succeeds it
\* writes the material buffer at the slot it returns and nowhere else, takes
\* that slot off the free list and caches the key under it, every other
\* slot's record and texture group being as before; when it fails the
\* material buffer, cache and free list are as before.  Besides, only the
\* texture and sampler tables may have changed.
C23_NoRebuild ==
    [][ (/\ IsCall
         /\ last'.op = "get_material"
         /\ last'.arg.key \notin DOMAIN asset.mat_by_name)
        => /\ pipeline_state' = pipeline_state
           /\ asset'.device.buffers = asset.device.buffers
           /\ asset'.meshes = asset.meshes
           /\ asset'.meshes_by_name = asset.meshes_by_name
           /\ asset'.src_prims = asset.src_prims
           /\ IF last'.ok
              THEN LET slot == last'.ret
                   IN /\ slot \notin DOMAIN asset.mat_buffer
                      /\ slot \in DOMAIN asset'.mat_buffer
                      /\ Without(asset'.mat_buffer, slot) = asset.mat_buffer
                      /\ Without(asset'.tex_by_mat, slot) = Without(asset.tex_by_mat, slot)
                      /\ Without(asset'.mat_by_name, last'.arg.key) = asset.mat_by_name
                      /\ asset'.mat_free = SubSeq(asset.mat_free, 1, Len(asset.mat_free) - 1)
              ELSE /\ asset'.mat_buffer = asset.mat_buffer
                   /\ asset'.tex_by_mat = asset.tex_by_mat
                   /\ asset'.mat_by_name = asset.mat_by_name
                   /\ asset'.mat_free = asset.mat_free ]_vars

\* a second material was created: the record of the first is still in the
\* material buffer beside the default record and the new one
C23_Witness ==
    /\ last.op = "get_material" /\ last.ok
    /\ prev.op = "get_material" /\ prev.ok /\ prev.ret # last.ret
    /\ {0, prev.ret, last.ret} \subseteq DOMAIN asset.mat_buffer
    /\ asset.mat_buffer[0] = default_uniform
    /\ Cardinality(DOMAIN asset.mat_buffer) = 3
    /\ Len(asset.meshes) > 0
    /\ pipeline_state.pipeline = 1

\* the key under which get_mesh asks for material number mat of a file
MaterialKey(key, mat) == FormatKey(PathPart(key), mat)

\* C24: after a get_mesh call on a key that is not cached has succeeded,
\* every range of the new mesh whose source primitive names a material holds
\* the slot cached under path#materialIndex -- the slot that key had before
\* the call, or else a slot taken from the free list by the call -- and
\* every range whose primitive names none holds slot 0; ranges of the mesh
\* naming the same material hold the same slot.
C24_MeshMaterials ==
    [][ (/\ IsCall
         /\ last'.op = "get_mesh"
         /\ last'.ok
         /\ last'.arg.key \notin DOMAIN asset.meshes_by_name)
        => LET key == last'.arg.key
               src == SourcePrimitives(key)
               ranges == asset'.meshes[last'.ret].primitives
           IN /\ Len(ranges) = Len(src)
              /\ \A i \in 1..Len(src) :
                   IF IsSome(src[i].material)
                   THEN LET mk == MaterialKey(key, Unwrap(src[i].material))
                        IN /\ mk \in DOMAIN asset'.mat_by_name
                           /\ ranges[i].material = asset'.mat_by_name[mk]
                           /\ ranges[i].material # 0
                           /\ IF mk \in DOMAIN asset.mat_by_name
                              THEN ranges[i].material = asset.mat_by_name[mk]
                              ELSE \E f \in (Len(asset'.mat_free) + 1)..Len(asset.mat_free) :
                                       ranges[i].material = asset.mat_free[f]
                   ELSE ranges[i].material = 0
              /\ \A i, j \in 1..Len(src) :
                   src[i].material = src[j].material =>
                       ranges[i].material = ranges[j].material ]_vars

\* get_mesh has built a mesh of two ranges naming one material, which was
\* not cached before: both hold one slot, which is not slot 0
C24_Witness ==
    /\ last.op = "get_mesh" /\ last.ok /\ prev.op = "none"
    /\ last.arg.key = K(PathA, NameHash)
    /\ LET ranges == asset.meshes[last.ret].primitives
       IN /\ Len(ranges) = 2
          /\ ranges[1].material = ranges[2].material
          /\ ranges[1].material = asset.mat_by_name[K(PathA, <<"0">>)]
          /\ ranges[1].material # 0
          /\ Len(asset.mat_free) = MAX_MAT - 2

\* get_mesh has built a mesh whose first range names a material and whose
\* second names none
C24_WitnessDefault ==
    /\ last.op = "get_mesh" /\ last.ok
    /\ last.arg.key = K(PathA, NameCube)
    /\ asset.meshes[last.ret].primitives[1].material # 0
    /\ asset.meshes[last.ret].primitives[2].material = 0

\* C25: resize with a nonzero width and a nonzero height sets the
\* configuration to (width, height) and configures the surface with it
\* once, replaces the depth texture by a new one of that size, sets the
\* aspect of the stored camera to width / height, keeping its other fields,
\* and writes that camera's uniform to the camera buffer; the asset manager,
\* the pipeline state and the light buffers are unchanged.
C25_Resize ==
    [][ (IsCall /\ last'.op = "resize"
         /\ last'.arg.width # 0 /\ last'.arg.height # 0) =>
        LET w == last'.arg.width
            h == last'.arg.height
        IN /\ config' = [width |-> w, height |-> h]
           /\ surface'.width = w /\ surface'.height = h
           /\ surface'.configures = surface.configures + 1
           /\ depth_tex'.id # depth_tex.id
           /\ depth_tex'.width = w /\ depth_tex'.height = h
           /\ camera'.aspect[1] * h = camera'.aspect[2] * w
           /\ [camera' EXCEPT !.aspect = camera.aspect] = camera
           /\ camera_buffer'.writes = camera_buffer.writes + 1
           /\ camera_buffer'.data = camera_uniform(camera')
           /\ UNCHANGED <<asset, pipeline_state, light_ssbo, light_params, pc>> ]_vars

\* after a frame rendered with a camera of aspect 1/2, a resize to 2 by 1
\* has left that camera with aspect 2/1, uploaded, and a new depth texture
C25_Witness ==
    /\ prev.op = "render" /\ prev.arg.cam.eye = 2 /\ prev.arg.cam.aspect = Ratio(1, 2)
    /\ last.op = "resize" /\ last.arg = [width |-> 2, height |-> 1]
    /\ config = [width |-> 2, height |-> 1]
    /\ depth_tex = [id |-> 2, width |-> 2, height |-> 1]
    /\ camera = [eye |-> 2, aspect |-> <<2, 1>>]
    /\ camera_buffer.data = camera_uniform(camera)
    /\ camera_buffer.writes = 2

\* the operations of the renderer
RendererOps == {"render", "resize"}

\* C26: renderer lifecycle.  A render or a resize is performed only on a
\* renderer that exists: a redraw or resize event that arrives while there
\* is none changes nothing of the renderer and the asset manager.  At most
\* one renderer is ever constructed, and it is constructed before the first
\* render or resize.
C26_Lifecycle ==
    [][ IsCall =>
        /\ last'.op \in RendererOps => (app.renderer /\ app.constructed = 1)
        /\ (~app.renderer /\ last'.op \in {"redraw_requested", "resized"}) =>
              /\ UNCHANGED <<asset, renderVars, pc>>
              /\ app'.ignored = app.ignored + 1
              /\ ~app'.renderer
        /\ app.constructed <= app'.constructed
        /\ app'.constructed <= 1
        /\ app'.renderer <=> (app'.constructed = 1)
        /\ app'.renderer => asset' # None ]_vars

\* on wasm32 a redraw was dropped before the renderer existed, the renderer
\* was then built by the spawned task, and a frame was rendered
C26_Witness ==
    /\ app.target = "wasm32"
    /\ app.ignored > 0
    /\ app.constructed = 1
    /\ prev.op = "renderer_task"
    /\ last.op = "render" /\ last.arg.acq = "Ok" /\ last.ok
    /\ Cardinality(EventsOf(frame, "draw_indexed")) = 2

\* a second resumed event has found the window in place and built nothing
C26_WitnessResumedTwice ==
    /\ last.op = "resumed" /\ prev.op = "resumed"
    /\ app.constructed = 1 /\ app.target = "native"

\* the sampler mapping table, entry by entry
MinTable(f) ==
    CASE f = Some("Nearest") -> [min |-> "Nearest", mipmap |-> "Nearest"]
      [] f = Some("Linear") -> [min |-> "Linear", mipmap |-> "Nearest"]
      [] f = Some("NearestMipmapNearest") -> [min |-> "Nearest", mipmap |-> "Nearest"]
      [] f = Some("LinearMipmapNearest") -> [min |-> "Linear", mipmap |-> "Nearest"]
      [] f = Some("NearestMipmapLinear") -> [min |-> "Nearest", mipmap |-> "Linear"]
      [] f = Some("LinearMipmapLinear") -> [min |-> "Linear", mipmap |-> "Linear"]
      [] f = None -> [min |-> "Linear", mipmap |-> "Nearest"]
MagTable(f) ==
    CASE f = Some("Nearest") -> "Nearest"
      [] f = Some("Linear") -> "Linear"
      [] f = None -> "Linear"
WrapTable(m) ==
    CASE m = "ClampToEdge" -> "ClampToEdge"
      [] m = "MirroredRepeat" -> "MirrorRepeat"
      [] m = "Repeat" -> "Repeat"

\* the glTF sampler a key names
SourceSampler(key) ==
    Files[Unwrap(split_path(key)).path].samplers[Unwrap(split_path(key)).selector + 1]

\* C27: sampler mapping table.  The sampler that a get_sampler miss creates
\* has the min and mipmap filters, the mag filter and the U and V address
\* modes that the table gives for the min filter, mag filter, wrap S and
\* wrap T of the glTF sampler, and the W address mode ClampToEdge.
C27_SamplerTable ==
    [][ (IsCall /\ last'.op = "get_sampler" /\ last'.ok
         /\ last'.arg.key \notin DOMAIN asset.sampler_by_name) =>
        LET s == SourceSampler(last'.arg.key)
            made == asset'.samplers[last'.ret]
        IN /\ made.min_filter = MinTable(s.min_filter).min
           /\ made.mipmap_filter = MinTable(s.min_filter).mipmap
           /\ made.mag_filter = MagTable(s.mag_filter)
           /\ made.address_mode_u = WrapTable(s.wrap_s)
           /\ made.address_mode_v = WrapTable(s.wrap_t)
           /\ made.address_mode_w = "ClampToEdge" ]_vars

\* a sampler was created from NearestMipmapLinear, no mag filter,
\* MirroredRepeat for S and Repeat for T
C27_Witness ==
    /\ last.op = "get_sampler" /\ last.ok
    /\ SourceSampler(last.arg.key) =
         [min_filter |-> Some("NearestMipmapLinear"), mag_filter |-> None,
          wrap_s |-> "MirroredRepeat", wrap_t |-> "Repeat"]
    /\ asset.samplers[last.ret].min_filter = "Nearest"
    /\ asset.samplers[last.ret].mipmap_filter = "Linear"
    /\ asset.samplers[last.ret].mag_filter = "Linear"
    /\ asset.samplers[last.ret].address_mode_u = "MirrorRepeat"
    /\ asset.samplers[last.ret].address_mode_w = "ClampToEdge"

\* the material slots of a mesh's ranges, in order
RangeMaterials(mesh) == [i \in 1..Len(mesh.primitives) |-> mesh.primitives[i].material]

\* the dynamic offsets with which the renderer binds group 3 when it draws
\* the mesh
DrawOffsets(mesh) ==
    LET trace == draw_mesh(mesh)
    IN {trace[i].offset : i \in BindsAt(trace, 3)}

\* C28: a successful rewrite_mesh leaves the mesh with one range per
\* primitive passed in, each with material slot 0, whatever the ranges held
\* before; the renderer then binds the material index of every range of the
\* mesh at offset 0.  The slots stay 0 through every later call except
\* set_mat and another rewrite_mesh.
C28_RewriteDefaultMaterial ==
    [][ IsCall =>
        /\ (last'.op = "rewrite_mesh" /\ last'.ok) =>
             LET new == asset'.meshes[last'.arg.mesh_id]
             IN /\ RangeMaterials(new) = [i \in 1..Len(last'.arg.primitives) |-> 0]
                /\ DrawOffsets(new) \subseteq {0}
        /\ last'.op \notin {"rewrite_mesh", "set_mat"} =>
             \A id \in 1..Len(asset.meshes) :
                 RangeMaterials(asset'.meshes[id]) = RangeMaterials(asset.meshes[id]) ]_vars

\* get_mesh built a mesh whose first range refers to a created material,
\* and a rewrite of that mesh then succeeded
C28_Witness ==
    /\ last.op = "rewrite_mesh" /\ last.ok
    /\ prev.op = "get_mesh" /\ prev.ok /\ prev.ret = last.arg.mesh_id
    /\ prev.arg.key = K(PathA, NameCube)
    /\ K(PathA, <<"0">>) \in DOMAIN asset.mat_by_name
    /\ asset.mat_by_name[K(PathA, <<"0">>)] # 0
    /\ Len(asset.meshes[last.arg.mesh_id].primitives) = 2
    /\ DrawOffsets(asset.meshes[last.arg.mesh_id]) = {0}

\* set_mat gave a range a material and a rewrite of the mesh then succeeded
C28_WitnessSetMat ==
    /\ last.op = "rewrite_mesh" /\ last.ok
    /\ prev.op = "set_mat" /\ prev.ok /\ prev.arg.mesh_id = last.arg.mesh_id
    /\ RangeMaterials(asset.meshes[last.arg.mesh_id]) = <<0, 0>>

\* the three ways in which rewrite_mesh fails
RewriteFailure(am, mesh_id, primitives) ==
    IF ~MeshLive(am, mesh_id) THEN "invalid mesh_id"
    ELSE IF TotalVertices(primitives) # am.meshes[mesh_id].vertex_count
         THEN "vertex count mismatch"
         ELSE IF TotalIndices(primitives) # am.meshes[mesh_id].index_count
              THEN "index count mismatch"
              ELSE "none"

\* C29: rewrite_mesh fails exactly on an invalid handle, a vertex-count
\* mismatch or an index-count mismatch, and a failing rewrite_mesh has
\* written nothing: every mesh's ranges, material references, counts, index
\* format and buffer contents, and the rest of the asset manager, are as
\* before the call.
C29_RewriteFailure ==
    [][ (IsCall /\ last'.op = "rewrite_mesh") =>
        LET why == RewriteFailure(asset, last'.arg.mesh_id, last'.arg.primitives)
        IN /\ last'.ok <=> (why = "none")
           /\ why # "none" =>
                /\ asset'.meshes = asset.meshes
                /\ asset' = asset
                /\ pc' = "Panicked" ]_vars

\* a rewrite with the right vertex total and the wrong index total failed
\* on a mesh whose first range still holds the material get_mesh gave it
C29_Witness ==
    /\ last.op = "rewrite_mesh" /\ ~last.ok
    /\ prev.op = "get_mesh" /\ prev.ok /\ prev.ret = last.arg.mesh_id
    /\ RewriteFailure(asset, last.arg.mesh_id, last.arg.primitives) = "index count mismatch"
    /\ asset.meshes[last.arg.mesh_id].primitives[1].material # 0
    /\ asset.src_prims[last.arg.mesh_id] # last.arg.primitives

\* a rewrite failed on the vertex total
C29_WitnessVertexCount ==
    /\ last.op = "rewrite_mesh" /\ ~last.ok
    /\ RewriteFailure(asset, last.arg.mesh_id, last.arg.primitives) = "vertex count mismatch"

\* a rewrite failed on a handle that names no mesh
C29_WitnessInvalidHandle ==
    /\ last.op = "rewrite_mesh" /\ ~last.ok
    /\ RewriteFailure(asset, last.arg.mesh_id, last.arg.primitives) = "invalid mesh_id"

\* the index values rewrite_mesh hands to the index buffer of a mesh
WrittenIndices(mesh) ==
    {Unwrap(mesh.index_buf).data[i] : i \in 1..Len(Unwrap(mesh.index_buf).data)}

\* C30: a successful rewrite_mesh keeps the mesh's index format, and on a
\* mesh with the 16-bit format the index values it writes are exactly the
\* values base_vertex + local index of the primitives passed in, none of
\* them reduced modulo 65536.
C30_RewriteNoWrap ==
    [][ (IsCall /\ last'.op = "rewrite_mesh" /\ last'.ok) =>
        LET old == asset.meshes[last'.arg.mesh_id]
            new == asset'.meshes[last'.arg.mesh_id]
        IN /\ new.index_format = old.index_format
           /\ (old.index_format = Some(U16) /\ IsSome(old.index_buf)) =>
                WrittenIndices(new) = RebasedIndices(last'.arg.primitives) ]_vars

\* a rewrite of a 16-bit mesh whose indices all fit 16 bits wrote them as
\* they are
C30_WitnessFit ==
    /\ last.op = "rewrite_mesh" /\ last.ok
    /\ last.arg.primitives = <<PrimB, PrimA>>
    /\ asset.meshes[last.arg.mesh_id].index_format = Some(U16)
    /\ WrittenIndices(asset.meshes[last.arg.mesh_id]) = 0..6

\* a rewrite of a 16-bit mesh with the index value 65536 + 3 wrote 3
C30_WitnessWrap ==
    /\ last.op = "rewrite_mesh" /\ last.ok
    /\ last.arg.primitives = <<PrimAWide, PrimB>>
    /\ asset.meshes[last.arg.mesh_id].index_format = Some(U16)
    /\ (U16_LIMIT + 3) \in RebasedIndices(last.arg.primitives)
    /\ WrittenIndices(asset.meshes[last.arg.mesh_id]) = 0..6

\* C31: a render call stores the camera passed to it and uploads that
\* camera's uniform: the stored camera, the camera buffer and the write
\* that opens the frame all carry the aspect of the caller's camera,
\* whatever aspect a preceding resize had stored.
C31_CallerAspect ==
    [][ IsRender =>
        /\ camera' = last'.arg.cam
        /\ camera_buffer'.data.view_proj.aspect = last'.arg.cam.aspect
        /\ camera_buffer'.data = camera_uniform(last'.arg.cam)
        /\ frame'[1].data.view_proj.aspect = last'.arg.cam.aspect ]_vars

\* a resize stored the aspect 2/1 and the render call after it was given a
\* camera of aspect 1/2, which is the one uploaded
C31_Witness ==
    /\ last.op = "render" /\ prev.op = "resize"
    /\ prev.arg.width = 2 /\ prev.arg.height = 1
    /\ last.arg.cam.aspect = Ratio(1, 2)
    /\ camera.aspect = Ratio(1, 2)
    /\ camera_buffer.data.view_proj.aspect = Ratio(1, 2)
    /\ config.width = 2 /\ config.height = 1

\* the handles of the meshes that carry a name
HandlesNamed(am, name) == {id \in 1..Len(am.meshes) : am.meshes[id].name = Some(name)}

\* C32: set_mesh succeeds whether or not its name is cached: it appends a
\* mesh under a handle that no mesh had, points the cache entry of the name
\* to it and leaves every earlier mesh, and what the renderer draws for it,
\* as before.  A get_mesh of a cached name returns the cached handle and
\* changes nothing, imports included; and the cached handle of a name is
\* always the newest mesh built under that name.
C32_SetMeshRepoints ==
    [][ IsCall =>
        /\ last'.op = "set_mesh" =>
             /\ last'.ok
             /\ last'.ret = Len(asset.meshes) + 1
             /\ Len(asset'.meshes) = Len(asset.meshes) + 1
             /\ asset'.meshes[last'.ret].name = Some(last'.arg.name)
             /\ asset'.meshes_by_name[last'.arg.name] = last'.ret
             /\ \A id \in 1..Len(asset.meshes) :
                    /\ asset'.meshes[id] = asset.meshes[id]
                    /\ draw_mesh(asset'.meshes[id]) = draw_mesh(asset.meshes[id])
             /\ asset'.imports = asset.imports
        /\ (last'.op = "get_mesh" /\ last'.arg.key \in DOMAIN asset.meshes_by_name) =>
             /\ last'.ok
             /\ last'.ret = asset.meshes_by_name[last'.arg.key]
             /\ asset' = asset
        /\ \A name \in DOMAIN asset'.meshes_by_name :
             /\ asset'.meshes_by_name[name] \in HandlesNamed(asset', name)
             /\ \A id \in HandlesNamed(asset', name) : id <= asset'.meshes_by_name[name] ]_vars

\* set_mesh was called twice with one name, and get_mesh of that name then
\* returned the second handle; both meshes are allocated
C32_Witness ==
    /\ last.op = "get_mesh" /\ last.ok /\ last.ret = 2
    /\ prev.op = "set_mesh" /\ prev.ret = 2 /\ prev.arg.name = last.arg.key
    /\ HandlesNamed(asset, last.arg.key) = {1, 2}
    /\ asset.meshes[1] # asset.meshes[2]
    /\ asset.imports = AssetManager_new.imports

\* set_mesh replaced the cache entry of a mesh that get_mesh had imported
C32_WitnessImported ==
    /\ last.op = "set_mesh" /\ last.ret = 2
    /\ prev.op = "get_mesh" /\ prev.ok /\ prev.ret = 1 /\ prev.arg.key = last.arg.name
    /\ asset.meshes_by_name[last.arg.name] = 2

\* the handles the asset manager has issued: one per mesh inserted
IssuedHandles(am) == 1..Len(am.meshes)

\* C33: meshes are never removed.  Across every call the meshes allocated
\* before are still allocated, every handle in the mesh cache and the handle
\* a successful get_mesh or set_mesh returns name an allocated mesh, and the
\* renderer's loop over a draw command finds the mesh of every handle
\* issued.
C33_MeshesStay ==
    [][ IsCall =>
        /\ Len(asset'.meshes) >= Len(asset.meshes)
        /\ IssuedHandles(asset) \subseteq IssuedHandles(asset')
        /\ \A name \in DOMAIN asset'.meshes_by_name :
               asset'.meshes_by_name[name] \in IssuedHandles(asset')
        /\ (last'.op \in {"get_mesh", "set_mesh"} /\ last'.ok) =>
               /\ last'.ret \in IssuedHandles(asset')
               /\ draw_commands(asset', <<last'.ret>>, 1).ok
        /\ \A id \in IssuedHandles(asset') : draw_commands(asset', <<id>>, 1).ok
        /\ \A id \in IssuedHandles(asset) : asset'.meshes[id].name = asset.meshes[id].name ]_vars

\* two meshes were issued, the cache entry of the first was repointed to
\* the second, the second was rewritten, and the first handle still names
\* its mesh
C33_Witness ==
    /\ last.op = "rewrite_mesh" /\ last.ok /\ last.arg.mesh_id = 2
    /\ prev.op = "set_mesh" /\ prev.ret = 2
    /\ asset.meshes_by_name[prev.arg.name] = 2
    /\ HandlesNamed(asset, prev.arg.name) = {1, 2}
    /\ draw_commands(asset, <<1, 2>>, 1).ok

\* C34: in every mesh the index buffer is present exactly when the index
\* format is, and exactly when the index count is not zero; and for a mesh
\* without index buffer the renderer sets the vertex buffer and issues no
\* draw and no binding of group 3.
C34_IndexBufferPresence ==
    \A id \in 1..Len(asset.meshes) :
        LET mesh == asset.meshes[id]
        IN /\ IsSome(mesh.index_buf) <=> IsSome(mesh.index_format)
           /\ IsSome(mesh.index_buf) <=> (mesh.index_count # 0)
           /\ ~IsSome(mesh.index_buf) =>
                /\ EventsOf(draw_mesh(mesh), "draw_indexed") = {}
                /\ BindsAt(draw_mesh(mesh), 3) = {}
           /\ IsSome(mesh.index_buf) =>
                Cardinality(EventsOf(draw_mesh(mesh), "draw_indexed")) = Len(mesh.primitives)

\* a mesh built from a primitive without triangles has a range and a
\* vertex buffer, no index buffer and no draw
C34_Witness ==
    \E id \in 1..Len(asset.meshes) :
        /\ ~IsSome(asset.meshes[id].index_buf)
        /\ ~IsSome(asset.meshes[id].index_format)
        /\ asset.meshes[id].index_count = 0
        /\ asset.meshes[id].vertex_count > 0
        /\ Len(asset.meshes[id].primitives) = 1
        /\ draw_mesh(asset.meshes[id]) =
             << [op |-> "set_vertex_buffer", buffer |-> asset.meshes[id].vertex_buf.id] >>

\* C35: the depth texture has the width and the height of the surface
\* configuration in every state of the renderer: as constructed, after
\* every resize, ignored or not, after every render call and after the
\* surface was configured again on a lost or outdated acquisition.
C35_DepthMatchesConfig ==
    /\ depth_tex.width = config.width
    /\ depth_tex.height = config.height

\* a resize to 2 x 1 replaced the depth texture, and the render call after
\* it lost the surface and configured it again
C35_Witness ==
    /\ prev.op = "resize" /\ prev.arg.width = 2 /\ prev.arg.height = 1
    /\ last.op = "render" /\ last.arg.acq \in {"Lost", "Outdated"}
    /\ surface.configures = 3
    /\ depth_tex = [id |-> 2, width |-> 2, height |-> 1]
    /\ config = [width |-> 2, height |-> 1]

\* a resize with a zero dimension came after one that took effect
C35_WitnessZero ==
    /\ prev.op = "resize" /\ prev.arg.width = 1 /\ prev.arg.height = 2
    /\ last.op = "resize" /\ last.arg.width = 0
    /\ depth_tex = [id |-> 2, width |-> 1, height |-> 2]

\* the slots a material handle can name
MaterialSlots == 0..(MAX_MAT - 1)

\* the id that group 3 shows to the shader when it is bound at a dynamic
\* byte offset into the material-index buffer: the id of the record that
\* starts there, if a whole record lies inside the buffer
SelectedId(buffer, offset) ==
    IF offset % MAT_ID_SIZE = 0 /\ offset + MAT_ID_SIZE <= buffer.ids * MAT_ID_SIZE
    THEN Some(mat_id_table(offset \div MAT_ID_SIZE))
    ELSE None

\* C36: the handle a successful get_material returns, and every material
\* slot in the ranges of a mesh that get_mesh has just built, is in
\* 0 .. MAX_MAT - 1; bound at offset slot * size_of(MatId), group 3 then
\* lies inside the material-index buffer and selects the record that holds
\* that very slot number.  The material-index buffer is the one written at
\* construction and is never written again.
C36_SlotsInTable ==
    [][ IsCall =>
        /\ pipeline_state'.mat_id_buffer = RendererNew(1, 1).pipeline_state.mat_id_buffer
        /\ pipeline_state'.mat_id_buffer.writes = 1
        /\ (last'.op = "get_material" /\ last'.ok) =>
              /\ last'.ret \in MaterialSlots
              /\ SelectedId(pipeline_state'.mat_id_buffer, last'.ret * MAT_ID_SIZE)
                   = Some(last'.ret)
        /\ (last'.op = "get_mesh" /\ last'.ok
            /\ last'.arg.key \notin DOMAIN asset.meshes_by_name) =>
              LET mesh == asset'.meshes[last'.ret]
                  trace == draw_mesh(mesh)
                  draws == TraceDraws(trace, Len(trace))
              IN /\ \A i \in 1..Len(mesh.primitives) :
                        mesh.primitives[i].material \in MaterialSlots
                 /\ IsSome(mesh.index_buf) => Len(draws) = Len(mesh.primitives)
                 /\ \A i \in 1..Len(draws) :
                        SelectedId(pipeline_state'.mat_id_buffer, draws[i].offset)
                          = Some(mesh.primitives[i].material) ]_vars

\* get_mesh created a material in the last free slot, MAX_MAT - 1, and
\* recorded it in the first range of the mesh; the second range has slot 0
C36_Witness ==
    /\ last.op = "get_mesh" /\ last.ok
    /\ Len(asset.mat_free) = 0
    /\ asset.meshes[last.ret].primitives[1].material = MAX_MAT - 1
    /\ asset.meshes[last.ret].primitives[2].material = 0
    /\ SelectedId(pipeline_state.mat_id_buffer, (MAX_MAT - 1) * MAT_ID_SIZE) = Some(MAX_MAT - 1)

\* the mesh set_mesh builds from a primitive list on a new asset manager
BuiltBySetMesh(primitives) == set_mesh(AssetManager_new, primitives, <<"m">>).am.meshes[1]

\* the fields of a range that set_mesh and rewrite_mesh compute
RangeLayout(mesh) ==
    [i \in 1..Len(mesh.primitives) |->
        [first_index |-> mesh.primitives[i].first_index,
         index_count |-> mesh.primitives[i].index_count,
         base_vertex |-> mesh.primitives[i].base_vertex,
         aabb_min |-> mesh.primitives[i].aabb_min,
         aabb_max |-> mesh.primitives[i].aabb_max]]

\* the index values in a mesh's index buffer, in order; none without buffer
IndexData(mesh) == IF IsSome(mesh.index_buf) THEN Unwrap(mesh.index_buf).data ELSE <<>>

\* the mesh that a rewrite with the list leaves agrees with the mesh that
\* set_mesh builds from the list
SameAsBuilt(new, primitives) ==
    /\ RangeLayout(new) = RangeLayout(BuiltBySetMesh(primitives))
    /\ new.vertex_buf.data = BuiltBySetMesh(primitives).vertex_buf.data
    /\ IndexData(new) = IndexData(BuiltBySetMesh(primitives))

\* C37: a successful rewrite_mesh leaves the mesh with the ranges (first
\* index, index count, base vertex, bounding box), the vertex sequence and
\* the index sequence that set_mesh produces for the same primitive list.
C37_RewriteAsSetMesh ==
    [][ (IsCall /\ last'.op = "rewrite_mesh" /\ last'.ok) =>
        SameAsBuilt(asset'.meshes[last'.arg.mesh_id], last'.arg.primitives) ]_vars

\* the same, for primitive lists all of whose rebased indices fit 16 bits
C37_RewriteAsSetMeshFit ==
    [][ (/\ IsCall /\ last'.op = "rewrite_mesh" /\ last'.ok
         /\ \A v \in RebasedIndices(last'.arg.primitives) : v < U16_LIMIT) =>
        SameAsBuilt(asset'.meshes[last'.arg.mesh_id], last'.arg.primitives) ]_vars

\* a rewrite with the primitives in the other order agrees with set_mesh
C37_WitnessFit ==
    /\ last.op = "rewrite_mesh" /\ last.ok
    /\ last.arg.primitives = <<PrimB, PrimA>>
    /\ SameAsBuilt(asset.meshes[last.arg.mesh_id], last.arg.primitives)
    /\ RangeLayout(asset.meshes[last.arg.mesh_id])[2].base_vertex = 3

\* a rewrite of a 16-bit mesh with an index that set_mesh would store in
\* 32 bits agrees with set_mesh on ranges and vertices, not on the indices
C37_WitnessWide ==
    /\ last.op = "rewrite_mesh" /\ last.ok
    /\ last.arg.primitives = <<PrimAWide, PrimB>>
    /\ RangeLayout(asset.meshes[last.arg.mesh_id])
         = RangeLayout(BuiltBySetMesh(last.arg.primitives))
    /\ IndexData(asset.meshes[last.arg.mesh_id])[6] = 3
    /\ IndexData(BuiltBySetMesh(last.arg.primitives))[6] = U16_LIMIT + 3

====
